---------------------------- MODULE Spec2Model ----------------------------
(***************************************************************************)
(* A model of the Ohio water-system harvester (src/ohio_scraper.py) and of  *)
(* the general scraper and the Tennessee harvester (src/scraper.py).       *)
(*                                                                         *)
(* The specifications share the variables below:                           *)
(*   SpecDiscovery  collect_all_systems against an arbitrary source        *)
(*   SpecFetch      get_coliform_results / get_chemical_results for one    *)
(*                  entity against an arbitrary source                     *)
(*   SpecRun        OhioWaterScraper.run for a small universe of entities  *)
(*   SpecScraper    FantineScraper.run: the coordinator loop, its tasks,   *)
(*                  the semaphore and the shutdown signal                  *)
(*   SpecTennessee  TennesseeWaterScraper.run                              *)
(*   SpecHarvesters OhioWaterScraper.run or TennesseeWaterScraper.run      *)
(*   SpecTraversal  one function of the Tennessee chained traversal        *)
(*                                                                         *)
(* JSON and Python values are tagged records, strings are sequences of     *)
(* one-character strings, so that str(), strip() and dict.get() are        *)
(* computed as Python computes them.                                       *)
(***************************************************************************)
EXTENDS Integers, Sequences, FiniteSets, TLC

VARIABLES
    pc,            \* position of the coroutine being modelled
    skip,          \* collect_all_systems: local skip
    total_count,   \* collect_all_systems: local total_count (a Python value)
    all_systems,   \* collect_all_systems: local all_systems
    requests,      \* every HTTP request issued so far, in order
    pages,         \* every response received by collect_all_systems, in order
    log,           \* logger entries of level warning and error, and the info
                   \* entries of the "no results" branches, in order
    returned,      \* the value collect_all_systems returned (NotReturned before)
    family,        \* the fetch in progress: "coliform" (get_coliform_results)
                   \* or "chemical" (get_chemical_results)
    system_info,   \* run: the system_info of the entity being processed
    replies,       \* every response received by the fetches (Tennessee: by
                   \* run), in order
    fetched,       \* the list the last finished fetch returned
    results,       \* self.results
    uuids,         \* the number of uuid4() values drawn so far
    listing,       \* the source: the entity objects of its listing, in order
    idx,           \* run: the position of the entity loop in systems[:test_limit]
    files,         \* the batches written to output files, in order
    uploads,       \* the batches uploaded to the bucket, in order
    faults,        \* the source: how many requests it has failed or answered
                   \* with nothing so far (SpecRun bounds it by MaxFaults)
    config,        \* FantineScraper: self.config
    running,       \* FantineScraper: self.running
    session,       \* FantineScraper: self.session ("none", "open", "closed")
    sem,           \* FantineScraper.run: the value of the semaphore
    task,          \* FantineScraper.run: the tasks of as_completed, by position
                   \* of their URL in target_urls[:max_pages]
    done_queue,    \* FantineScraper.run: the tasks that finished and that the
                   \* loop has not taken yet, in order of completion
    system_links   \* TennesseeWaterScraper.run: local system_links

discVars == <<skip, total_count, all_systems, pages, returned>>

fetchVars == <<family, system_info, replies, fetched, uuids>>

runVars == <<results, listing, idx, files, uploads>>

scraperVars == <<config, running, session, sem, task, done_queue>>

\* What neither FantineScraper nor TennesseeWaterScraper has.
ohioVars == <<skip, total_count, all_systems, pages, returned, family,
              system_info, fetched, uuids, listing, idx, faults>>

vars == <<pc, skip, total_count, all_systems, requests, pages, log, returned,
          family, system_info, replies, fetched, results, uuids,
          listing, idx, files, uploads, faults,
          config, running, session, sem, task, done_queue, system_links>>

----------------------------------------------------------------------------
(* Bounds of the model.                                                    *)

\* Stand-in for results_per_page (225 in the source, line 91): the page size
\* every pagination claim is relative to, scaled down so that several pages
\* fit in the bounds.
PageSize == 2

\* The largest total the source advertises or holds.
MaxTotal == 5

\* The longest Results list of a raw sample.
MaxResults == 3

\* The longest 'value' list of a query response.
MaxSamples == 2

\* The longest listing of the source in SpecRun.
MaxSystems == 4

\* Stand-in for the test limit of run (min(10, len(systems)), line 453),
\* scaled down so that listings longer than the limit fit in the bounds.
TestLimit == 3

\* SpecRun: the most requests of one run the source fails or answers with
\* nothing, plus the malformed entities of its listing.
MaxFaults == 2

\* FantineScraper: the longest target_urls of a configuration.
MaxUrls == 4

\* FantineScraper: stand-in for max_pages (100 by default, line 43), scaled
\* down so that target_urls longer than max_pages fit in the bounds.
MaxPages == 3

\* FantineScraper: the largest max_concurrent of a configuration (5 by
\* default, line 46).
MaxConcurrent == 2

\* TennesseeWaterScraper: the most links of the listing page.
MaxLinks == 2

\* Tennessee traversal: the most rows of a results table.
MaxRows == 2

----------------------------------------------------------------------------
(* Values: JSON values read from a response and Python values held by the  *)
(* program.  k is the kind; n the number (kind "num"); s the string (kind  *)
(* "str"), a sequence of characters.  Absent is a key missing from a JSON  *)
(* object, JNull is JSON null, read by Python as None.                     *)

Absent == [k |-> "absent", n |-> 0, s |-> <<>>]

JNull == [k |-> "null", n |-> 0, s |-> <<>>]

JNum(i) == [k |-> "num", n |-> i, s |-> <<>>]

JStr(str) == [k |-> "str", n |-> 0, s |-> str]

\* dict.get(key, default): the default only when the key is missing.
Get(v, default) == IF v.k = "absent" THEN default ELSE v

NotReturned == <<"not returned">>

Min(a, b) == IF a <= b THEN a ELSE b

Max(a, b) == IF a >= b THEN a ELSE b

\* ceil(a / b) for b > 0
CeilDiv(a, b) == (a + b - 1) \div b

SeqSum(seq) ==
    LET RECURSIVE Go(_)
        Go(i) == IF i = 0 THEN 0 ELSE seq[i] + Go(i - 1)
    IN Go(Len(seq))

\* Concatenation of a sequence of sequences, in order.
Flatten(seqs) ==
    LET RECURSIVE Go(_)
        Go(i) == IF i = 0 THEN <<>> ELSE Go(i - 1) \o seqs[i]
    IN Go(Len(seqs))

LogEntry(level, msg) == [level |-> level, msg |-> msg]

----------------------------------------------------------------------------
(* The discovery source.  The entity at offset i of the source's listing   *)
(* is the number i + 1; a page of n entities asked at offset sk is         *)
(* <<sk + 1, ..., sk + n>>.                                                *)

Batch(sk, n) == [i \in 1..n |-> sk + i]

\* The counts a page may advertise in '@odata.count'.
Counts == {Absent, JNull} \cup {JNum(i) : i \in 0..MaxTotal}

\* The page an honest source of `total` entities returns at offset sk.
HonestLen(total, sk) == Min(PageSize, Max(total - sk, 0))

\* A GET: op is "systems" (the listing, with its $skip), "config" or "query"
\* (with the family and the entity's id).
Request(op, fam, id, sk) == [op |-> op, family |-> fam, id |-> id, skip |-> sk]

DiscRequest(sk) == Request("systems", "none", <<>>, sk)

PageOk(n, c) == [status |-> 200, len |-> n, count |-> c]

PageStatus(st) == [status |-> st, len |-> 0, count |-> Absent]

PageRaise == [status |-> 0, len |-> 0, count |-> Absent]

----------------------------------------------------------------------------
(* collect_all_systems                                                     *)

\* Lines 156-158: the locals before the loop.
DiscInit ==
    /\ skip = 0
    /\ total_count = JNum(0)
    /\ all_systems = <<>>
    /\ pages = <<>>
    /\ returned = NotReturned

\* Lines 160-166: the top of the loop issues the GET for the current skip.
DiscIssue ==
    /\ pc = "disc_loop"
    /\ requests' = Append(requests, DiscRequest(skip))
    /\ pc' = "disc_await"
    /\ UNCHANGED <<log, discVars, fetchVars, runVars>>

\* Lines 192-193, reached by every break: the function returns all_systems.
DiscReturn(systems) ==
    /\ returned' = systems
    /\ pc' = "disc_done"

\* Line 183: len(systems_batch) < results_per_page or len(all_systems) >= total_count
\* "stop", "more", or "raise" when the comparison with a non-number raises.
\* Mutants of the test: <= for <; the total never compared; "and" for "or".
DiscStopAfterEager(n, have, total) ==
    IF n <= PageSize THEN "stop"
    ELSE IF total.k # "num" THEN "raise"
    ELSE IF have >= total.n THEN "stop" ELSE "more"

DiscStopAfterNoTotal(n, have, total) ==
    IF n < PageSize THEN "stop" ELSE "more"

DiscStopAfterBoth(n, have, total) ==
    IF n >= PageSize THEN "more"
    ELSE IF total.k # "num" THEN "raise"
    ELSE IF have >= total.n THEN "stop" ELSE "more"

\* Mutants: the short page does not stop the loop; > for >=.
DiscStopAfterIgnoresShort(n, have, total) ==
    IF total.k # "num" THEN "raise"
    ELSE IF have >= total.n THEN "stop" ELSE "more"

DiscStopAfterStrict(n, have, total) ==
    IF n < PageSize THEN "stop"
    ELSE IF total.k # "num" THEN "raise"
    ELSE IF have > total.n THEN "stop" ELSE "more"

DiscStopAfter(n, have, total) ==
    IF n < PageSize THEN "stop"
    ELSE IF total.k # "num" THEN "raise"
    ELSE IF have >= total.n THEN "stop" ELSE "more"

\* Lines 171-186: a 200 response whose body parses, holding n entities and
\* advertising count c.
DiscPageOk(n, c) ==
    /\ pc = "disc_await"
    /\ pages' = Append(pages, PageOk(n, c))
    /\ LET total == IF skip = 0 THEN Get(c, JNum(0)) ELSE total_count
           systems == all_systems \o Batch(skip, n)
           verdict == DiscStopAfter(n, Len(systems), total)
       IN /\ total_count' = total
          /\ all_systems' = systems
          /\ IF verdict = "more"
                THEN /\ skip' = skip + PageSize
                     /\ pc' = "disc_loop"
                     /\ UNCHANGED <<returned, log>>
                ELSE /\ DiscReturn(systems)
                     /\ log' = IF verdict = "raise"
                                  THEN Append(log, LogEntry("error", "Error collecting systems batch"))
                                  ELSE log
                     /\ UNCHANGED skip
    /\ UNCHANGED <<requests, fetchVars, runVars>>

\* Mutant: "continue" for "break" on a bad status.
DiscPageStatusContinue(st) ==
    /\ pc = "disc_await"
    /\ st # 200
    /\ pages' = Append(pages, PageStatus(st))
    /\ log' = Append(log, LogEntry("error", "Failed to fetch systems batch"))
    /\ skip' = skip + PageSize
    /\ pc' = IF Len(pages) < MaxTotal THEN "disc_loop" ELSE "disc_done"
    /\ UNCHANGED <<total_count, all_systems, requests, returned, fetchVars, runVars>>

\* Lines 167-169: a response whose status is not 200.
DiscPageStatus(st) ==
    /\ pc = "disc_await"
    /\ st # 200
    /\ pages' = Append(pages, PageStatus(st))
    /\ log' = Append(log, LogEntry("error", "Failed to fetch systems batch"))
    /\ DiscReturn(all_systems)
    /\ UNCHANGED <<skip, total_count, all_systems, requests, fetchVars, runVars>>

\* Lines 188-190: session.get or response.json() raises.
DiscPageRaise ==
    /\ pc = "disc_await"
    /\ pages' = Append(pages, PageRaise)
    /\ log' = Append(log, LogEntry("error", "Error collecting systems batch"))
    /\ DiscReturn(all_systems)
    /\ UNCHANGED <<skip, total_count, all_systems, requests, fetchVars, runVars>>

----------------------------------------------------------------------------
(* Python's str(), str.strip(), truthiness.                                *)

EmptyStr == JStr(<<>>)

DigitChars == <<"0", "1", "2", "3", "4", "5", "6", "7", "8", "9">>

RECURSIVE Digits(_)
Digits(i) ==
    IF i < 10 THEN <<DigitChars[i + 1]>>
    ELSE Digits(i \div 10) \o <<DigitChars[(i % 10) + 1]>>

\* str(v) of a Python value: None gives 'None', a number its digits.
PyStr(v) ==
    CASE v.k = "str" -> v
      [] v.k = "num" -> JStr(Digits(v.n))
      [] OTHER -> JStr(<<"N", "o", "n", "e">>)

RECURSIVE LStrip(_)
LStrip(s) == IF s # <<>> /\ Head(s) = " " THEN LStrip(Tail(s)) ELSE s

RECURSIVE RStrip(_)
RStrip(s) ==
    IF s # <<>> /\ s[Len(s)] = " " THEN RStrip(SubSeq(s, 1, Len(s) - 1)) ELSE s

\* s.strip()
Strip(s) == RStrip(LStrip(s))

\* bool(x.get(key)): None, 0 and '' are falsy.
Truthy(v) ==
    CASE v.k = "num" -> v.n # 0
      [] v.k = "str" -> v.s # <<>>
      [] OTHER -> FALSE

----------------------------------------------------------------------------
(* The three ways the two fetches read a field of a raw object.  Each      *)
(* field of OhioWaterResult is built by one of them (or is a constant);    *)
(* the model carries, for each way and each level (sample, sub-result),    *)
(* one field of the source, named as in the source.                        *)

\* x.get(key, '')
Plain(v) == Get(v, EmptyStr)

\* str(x.get(key, ''))
Coerced(v) == PyStr(Get(v, EmptyStr))

\* x.get(key, '').strip(): raises AttributeError unless the value is a string.
TrimmedRaises(v) == Get(v, EmptyStr).k # "str"

Trimmed(v) == JStr(Strip(Get(v, EmptyStr).s))

\* x.get(key, '').strip() if x.get(key) else ''
GuardedRaises(v) == Truthy(v) /\ TrimmedRaises(v)

Guarded(v) == IF Truthy(v) THEN Trimmed(v) ELSE EmptyStr

----------------------------------------------------------------------------
(* Raw objects of a query response.  A list-valued key ('value',           *)
(* 'Results') is absent, null or a list.                                   *)

NoList == [k |-> "absent", items |-> <<>>]

NullList == [k |-> "null", items |-> <<>>]

List(items) == [k |-> "list", items |-> items]

SubResult(code, name, measure) ==
    [AnalyteCode |-> code, AnalyteName |-> name, ResultMeasure |-> measure]

\* {} : the default of result.get('Results', [{}])[0]
EmptySub == SubResult(Absent, Absent, Absent)

Sample(id, type, point, res) ==
    [TSASAMPL_IS_NUMBER |-> id, Type |-> type, SamplePoint |-> point, Results |-> res]

\* __init__, lines 75-80: the constants every record of a run carries.
StateAbbrev == JStr(<<"O", "H">>)

UnixTimestamp == JStr(<<"1", "7">>)

TimestampUtc == JStr(<<"2", "0", "2", "6">>)

\* str(uuid4()): a string; n numbers the draw, so that every draw differs.
Uuid(i) == [k |-> "str", n |-> i, s |-> <<"u", "u", "i", "d">>]

\* Lines 244, 362: the query URL, fixed by the family and the entity's id.
QueryUrl(fam, id) == [k |-> "str", n |-> 0, s |-> <<fam>> \o id]

\* Lines 262-305: the OhioWaterResult of a coliform sample.
ColiformItem(sample, sub, info, url, u) ==
    [result_uuid |-> Uuid(u),
     state |-> StateAbbrev,
     pwsid |-> info.system_id,
     system_name |-> info.system_name,
     unix_timestamp |-> UnixTimestamp,
     timestamp_utc |-> TimestampUtc,
     result_id |-> Coerced(sample.TSASAMPL_IS_NUMBER),
     result_sample_type |-> Plain(sample.Type),
     result_sample_point |-> Trimmed(sample.SamplePoint),
     result_analyte_code |-> Plain(sub.AnalyteCode),
     result_analyte_name |-> Trimmed(sub.AnalyteName),
     result_concentration_level |-> EmptyStr,
     result_type |-> JStr(<<"coliform">>),
     result_url |-> url]

\* Line 260: result.get('Results', [{}])[0] raises on null and on [].
ColiformFirstRaises(sample) ==
    \/ sample.Results.k = "null"
    \/ sample.Results.k = "list" /\ sample.Results.items = <<>>

ColiformFirst(sample) ==
    IF sample.Results.k = "list" /\ sample.Results.items # <<>>
        THEN sample.Results.items[1]
        ELSE EmptySub

\* Lines 260-305: building the record of one coliform sample raises.
ColiformRaises(sample) ==
    \/ ColiformFirstRaises(sample)
    \/ TrimmedRaises(sample.SamplePoint)
    \/ TrimmedRaises(ColiformFirst(sample).AnalyteName)

\* Lines 380-423: the OhioWaterResult of one analyte of a chemical sample.
ChemicalItem(sample, sub, info, url, u) ==
    [result_uuid |-> Uuid(u),
     state |-> StateAbbrev,
     pwsid |-> info.system_id,
     system_name |-> info.system_name,
     unix_timestamp |-> UnixTimestamp,
     timestamp_utc |-> TimestampUtc,
     result_id |-> Coerced(sample.TSASAMPL_IS_NUMBER),
     result_sample_type |-> Plain(sample.Type),
     result_sample_point |-> Guarded(sample.SamplePoint),
     result_analyte_code |-> Plain(sub.AnalyteCode),
     result_analyte_name |-> Guarded(sub.AnalyteName),
     result_concentration_level |-> Coerced(sub.ResultMeasure),
     result_type |-> JStr(<<"chemical">>),
     result_url |-> url]

ChemicalRaises(sample, sub) ==
    \/ GuardedRaises(sample.SamplePoint)
    \/ GuardedRaises(sub.AnalyteName)

\* The outcome of a loop over raw objects: the records appended to the
\* local results before the loop ended, and whether it ended by raising.
Outcome(items, raised) == [items |-> items, raised |-> raised]

\* Lines 258-306: for result in coliform_data, one record per sample.
NormalizeColiform(samples, info, url, u0) ==
    LET RECURSIVE Go(_, _)
        Go(i, acc) ==
            IF i > Len(samples) THEN Outcome(acc, FALSE)
            ELSE IF ColiformRaises(samples[i]) THEN Outcome(acc, TRUE)
            ELSE Go(i + 1, Append(acc,
                     ColiformItem(samples[i], ColiformFirst(samples[i]), info, url,
                                  u0 + Len(acc) + 1)))
    IN Go(1, <<>>)

\* Mutant: the chemical loop reads the first sub-result only, as line 260
\* does for coliform.
ChemicalSampleFirstOnly(sample, acc, info, url, u0) ==
    LET subs == sample.Results.items
    IN IF sample.Results.k = "null" THEN Outcome(acc, TRUE)
       ELSE IF subs = <<>> THEN Outcome(acc, FALSE)
       ELSE IF ChemicalRaises(sample, subs[1]) THEN Outcome(acc, TRUE)
       ELSE Outcome(Append(acc, ChemicalItem(sample, subs[1], info, url, u0 + Len(acc) + 1)),
                    FALSE)

\* Mutant: a sample whose normalization raises leaves no record at all.
ChemicalSampleAllOrNothing(sample, acc, info, url, u0) ==
    LET subs == sample.Results.items
        RECURSIVE Go(_, _)
        Go(j, a) ==
            IF j > Len(subs) THEN Outcome(a, FALSE)
            ELSE IF ChemicalRaises(sample, subs[j]) THEN Outcome(acc, TRUE)
            ELSE Go(j + 1, Append(a,
                     ChemicalItem(sample, subs[j], info, url, u0 + Len(a) + 1)))
    IN IF sample.Results.k = "null" THEN Outcome(acc, TRUE) ELSE Go(1, acc)

\* Lines 379-424: for result in sample.get('Results', []), one record per
\* sub-result, appended to acc.
ChemicalSample(sample, acc, info, url, u0) ==
    LET subs == sample.Results.items
        RECURSIVE Go(_, _)
        Go(j, a) ==
            IF j > Len(subs) THEN Outcome(a, FALSE)
            ELSE IF ChemicalRaises(sample, subs[j]) THEN Outcome(a, TRUE)
            ELSE Go(j + 1, Append(a,
                     ChemicalItem(sample, subs[j], info, url, u0 + Len(a) + 1)))
    IN IF sample.Results.k = "null" THEN Outcome(acc, TRUE) ELSE Go(1, acc)

\* Lines 377-424: for sample in samples.
NormalizeChemical(samples, info, url, u0) ==
    LET RECURSIVE Go(_, _)
        Go(i, acc) ==
            IF i > Len(samples) THEN Outcome(acc, FALSE)
            ELSE LET o == ChemicalSample(samples[i], acc, info, url, u0)
                 IN IF o.raised THEN o ELSE Go(i + 1, o.items)
    IN Go(1, <<>>)

Normalize(fam, samples, info, url, u0) ==
    IF fam = "coliform" THEN NormalizeColiform(samples, info, url, u0)
    ELSE NormalizeChemical(samples, info, url, u0)

----------------------------------------------------------------------------
(* get_coliform_config / get_coliform_results and get_chemical_config /    *)
(* get_chemical_results.  The two pairs differ in the normalization only;  *)
(* `family` says which one runs.                                           *)

Families == {"coliform", "chemical"}

Reply(op, fam, id, st, body, value) ==
    [op |-> op, family |-> fam, id |-> id, status |-> st, body |-> body, value |-> value]

\* A request that raised (connection error, timeout): no status.
Raised(op, fam, id) == Reply(op, fam, id, 0, "none", NoList)

\* Lines 308/312, 426/430 and every early return: the fetch returns items.
FetchReturn(items) ==
    /\ fetched' = items
    /\ uuids' = uuids + Len(items)
    /\ pc' = "fetch_done"

\* Lines 197-201, 316-320: the fetch starts with the configuration request.
FetchCall ==
    /\ pc = "fetch_call"
    /\ requests' = Append(requests, Request("config", family, system_info.system_id.s, 0))
    /\ pc' = "config_await"
    /\ UNCHANGED <<log, discVars, fetchVars, runVars>>

\* Lines 202-207 and 217-218 (321-326, 336-337): get_*_config returns
\* True on status 200 only; the fetch then builds and issues the query.
\* Mutant: any status below 300 counts as success.
ConfigProceedsLax(st) == st < 300

ConfigProceeds(st) == st = 200

ConfigReply(st) ==
    /\ pc = "config_await"
    /\ replies' = Append(replies, Reply("config", family, system_info.system_id.s, st, "none", NoList))
    /\ IF ConfigProceeds(st)
          THEN /\ requests' = Append(requests,
                                Request("query", family, system_info.system_id.s, 0))
               /\ pc' = "query_await"
               /\ UNCHANGED <<log, fetched, uuids>>
          ELSE /\ log' = Append(log, LogEntry("warning", "Failed to get config"))
               /\ FetchReturn(<<>>)
               /\ UNCHANGED requests
    /\ UNCHANGED <<discVars, family, system_info, runVars>>

\* Lines 208-210, 327-329: the configuration request raises.
ConfigRaise ==
    /\ pc = "config_await"
    /\ replies' = Append(replies, Raised("config", family, system_info.system_id.s))
    /\ log' = Append(log, LogEntry("error", "Error getting config"))
    /\ FetchReturn(<<>>)
    /\ UNCHANGED <<requests, discVars, family, system_info, runVars>>

\* Lines 248, 366: `not response.text`.  response.text is the bound method
\* of aiohttp's ClientResponse (it is never called here), and a method is
\* truthy whatever the body holds.
ResponseTextFalsy(body) == FALSE

\* Lines 248, 366: response.status == 204 or not response.text
NoResults(st, body) == st = 204 \/ ResponseTextFalsy(body)

\* Lines 252-253, 370-371: response.json() and data.get('value', []) give a
\* list to loop over, or raise: an empty body gives no object to .get()
\* from, a body that is not JSON does not parse, a null 'value' is not
\* iterable.
DataRaises(body, value) == body # "json" \/ value.k = "null"

\* Lines 246-312, 364-430: the response of the query.
QueryReply(st, body, value) ==
    /\ pc = "query_await"
    /\ replies' = Append(replies, Reply("query", family, system_info.system_id.s, st, body, value))
    /\ IF NoResults(st, body)
          THEN /\ log' = Append(log, LogEntry("info", "No results"))
               /\ FetchReturn(<<>>)
          ELSE IF DataRaises(body, value)
          THEN /\ log' = Append(log, LogEntry("error", "Error getting results"))
               /\ FetchReturn(<<>>)
          ELSE LET o == Normalize(family, value.items, system_info,
                                  QueryUrl(family, system_info.system_id.s), uuids)
               IN /\ log' = IF o.raised
                               THEN Append(log, LogEntry("error", "Error getting results"))
                               ELSE log
                  /\ FetchReturn(o.items)
    /\ UNCHANGED <<requests, discVars, family, system_info, runVars>>

\* Mutant: the exception of the query request is not caught and leaves run.
QueryRaiseUncaught ==
    /\ pc = "query_await"
    /\ replies' = Append(replies, Raised("query", family, system_info.system_id.s))
    /\ pc' = "run_raised"
    /\ UNCHANGED <<log, fetched, uuids, requests, discVars, family, system_info, runVars>>

\* Lines 310-312, 428-430: the query request raises.
QueryRaise ==
    /\ pc = "query_await"
    /\ replies' = Append(replies, Raised("query", family, system_info.system_id.s))
    /\ log' = Append(log, LogEntry("error", "Error getting results"))
    /\ FetchReturn(<<>>)
    /\ UNCHANGED <<requests, discVars, family, system_info, runVars>>

----------------------------------------------------------------------------
(* The raw objects the model's source answers with.                        *)

\* The values a field of a raw object takes: missing, null, the numbers 0
\* and 7, a padded string.
FieldValues == {Absent, JNull, JNum(0), JNum(7), JStr(<<" ", "x", " ">>)}

Letters == <<"a", "b", "c", "d", "e", "f", "g", "h">>

\* A well-formed sub-result, different at each position j of its list.
BaseSub(j) == SubResult(JStr(<<Letters[j]>>), JStr(<<" ", Letters[j], " ">>), JNum(j))

BaseList(n) == [j \in 1..n |-> BaseSub(j)]

SubFields == {"AnalyteCode", "AnalyteName", "ResultMeasure"}

\* Sub-results: well-formed but for one field, or every field alike
\* (EmptySub, the empty object, among them).
SubPool ==
    {[BaseSub(1) EXCEPT ![f] = v] : f \in SubFields, v \in FieldValues}
        \cup {SubResult(v, v, v) : v \in FieldValues}

\* Results lists: well-formed but for one sub-result.
ResultsLists ==
    {BaseList(n) : n \in 0..MaxResults}
        \cup UNION {{[BaseList(n) EXCEPT ![j] = s] : j \in 1..n, s \in SubPool} :
                    n \in 1..MaxResults}

\* A well-formed sample, different at each position i of its list.
BaseSample(i, res) == Sample(JNum(i), JStr(<<"R", "T">>), JStr(<<" ", "p", " ">>), res)

SampleFields == {"TSASAMPL_IS_NUMBER", "Type", "SamplePoint"}

\* Samples: well-formed with any Results; well-formed but for one field;
\* every field alike (the empty object among them).
SamplePool ==
    {BaseSample(1, List(l)) : l \in ResultsLists}
        \cup {BaseSample(1, NoList), BaseSample(1, NullList)}
        \cup {[BaseSample(1, List(BaseList(n))) EXCEPT ![f] = v] :
                 f \in SampleFields, v \in FieldValues, n \in {0, 2}}
        \cup {Sample(v, v, v, NoList) : v \in FieldValues}
        \cup {Sample(v, v, v, List(<<SubResult(v, v, v)>>)) : v \in FieldValues}

\* 'value' lists: any sample of the pool at one position, well-formed
\* samples of two sub-results at the others.
ValueLists ==
    {<<>>} \cup
    UNION {{[i \in 1..m |-> IF i = j THEN s ELSE BaseSample(i, List(BaseList(2)))] :
               j \in 1..m, s \in SamplePool} : m \in 1..MaxSamples}

QueryValues == {NoList, NullList} \cup {List(l) : l \in ValueLists}

\* run, lines 460-472: the system_info of an entity whose NUMBER0 and NAME
\* are strings.
SystemInfo(id, name) == [system_id |-> JStr(id), system_name |-> JStr(name)]

NoSystem == SystemInfo(<<>>, <<>>)

\* No fetch in progress.
FetchIdle ==
    /\ family = "none"
    /\ system_info = NoSystem
    /\ replies = <<>>
    /\ fetched = <<>>
    /\ uuids = 0

----------------------------------------------------------------------------
(* OhioWaterScraper.run, _save_results, _upload_to_spaces                  *)

\* An entity object of the listing.
Entity(number0, name) == [NUMBER0 |-> number0, NAME |-> name]

\* A well-formed entity, different at each position e of the listing; the
\* source pads NUMBER0 with spaces.
BaseEntity(e) == Entity(JStr(<<Letters[e], " ">>), JStr(<<"n", Letters[e]>>))

\* Before run starts: nothing accumulated, written or uploaded.
RunIdle ==
    /\ results = <<>>
    /\ listing = <<>>
    /\ idx = 0
    /\ files = <<>>
    /\ uploads = <<>>
    /\ faults = 0

\* Lines 439-441: run opens the session and asks for the XSRF token.
RunStart ==
    /\ pc = "run_start"
    /\ requests' = Append(requests, Request("xsrf", "none", <<>>, 0))
    /\ pc' = "xsrf_await"
    /\ UNCHANGED <<log, discVars, fetchVars, runVars>>

\* Lines 113-133 and 442-444: the token is the XSRF-TOKEN cookie of a 200
\* response; without it run logs an error and returns.
XsrfReply(st, hasToken) ==
    /\ pc = "xsrf_await"
    /\ IF st = 200 /\ hasToken
          THEN /\ pc' = "disc_loop"
               /\ UNCHANGED log
          ELSE /\ pc' = "run_done"
               /\ log' = log \o
                    <<LogEntry(IF st = 200 THEN "warning" ELSE "error", "XSRF token"),
                      LogEntry("error", "Failed to get XSRF token")>>
    /\ UNCHANGED <<requests, discVars, fetchVars, runVars>>

\* Lines 135-137 and 442-444: the token request raises.
XsrfRaise ==
    /\ pc = "xsrf_await"
    /\ pc' = "run_done"
    /\ log' = log \o <<LogEntry("error", "Error getting XSRF token"),
                       LogEntry("error", "Failed to get XSRF token")>>
    /\ UNCHANGED <<requests, discVars, fetchVars, runVars>>

\* Mutant: without systems run goes on to save its empty batch.
RunAfterDiscoveryAlwaysSaves ==
    /\ pc = "disc_done"
    /\ IF returned = <<>>
          THEN /\ pc' = "save"
               /\ log' = Append(log, LogEntry("error", "No systems collected"))
               /\ UNCHANGED idx
          ELSE /\ pc' = "entity"
               /\ idx' = 1
               /\ UNCHANGED log
    /\ UNCHANGED <<requests, discVars, fetchVars, results, listing, files, uploads>>

\* Lines 447-456: without systems run logs an error and returns; otherwise
\* the loop over systems[:test_limit] starts.
RunAfterDiscovery ==
    /\ pc = "disc_done"
    /\ IF returned = <<>>
          THEN /\ pc' = "run_done"
               /\ log' = Append(log, LogEntry("error", "No systems collected"))
               /\ UNCHANGED idx
          ELSE /\ pc' = "entity"
               /\ idx' = 1
               /\ UNCHANGED log
    /\ UNCHANGED <<requests, discVars, fetchVars, results, listing, files, uploads>>

\* Mutant: every discovered system is harvested.
HarvestLimitNone(systems) == Len(systems)

\* Line 453: test_limit = min(10, len(systems)), with TestLimit for 10.
HarvestLimit(systems) == Min(TestLimit, Len(systems))

\* Lines 456-474: the next entity of systems[:test_limit].  An entity
\* without NUMBER0 is skipped; NUMBER0 or NAME that is not a string makes
\* .strip() raise, and nothing in run catches it; after the last entity
\* comes _save_results.
RunEntity ==
    /\ pc = "entity"
    /\ IF idx > HarvestLimit(returned)
          THEN /\ pc' = "save"
               /\ UNCHANGED <<idx, family, system_info>>
          ELSE LET system == listing[returned[idx]]
               IN IF system.NUMBER0.k = "absent"
                     THEN /\ idx' = idx + 1
                          /\ UNCHANGED <<pc, family, system_info>>
                  ELSE IF TrimmedRaises(system.NUMBER0) \/ TrimmedRaises(system.NAME)
                     THEN /\ pc' = "run_raised"
                          /\ UNCHANGED <<idx, family, system_info>>
                  ELSE /\ system_info' = [system_id |-> Trimmed(system.NUMBER0),
                                          system_name |-> Trimmed(system.NAME)]
                       /\ family' = "coliform"
                       /\ pc' = "fetch_call"
                       /\ UNCHANGED idx
    /\ UNCHANGED <<requests, log, discVars, replies, fetched, uuids,
                   results, listing, files, uploads>>

\* Mutant: self.results is assigned the fetch's records, not extended.
RunExtendOverwrites ==
    /\ pc = "fetch_done"
    /\ results' = fetched
    /\ IF family = "coliform"
          THEN /\ family' = "chemical"
               /\ pc' = "fetch_call"
          ELSE /\ pc' = "sleep"
               /\ UNCHANGED family
    /\ UNCHANGED <<requests, log, discVars, system_info, replies, fetched, uuids,
                   listing, idx, files, uploads>>

\* Mutant: the fetch's records are put in front of self.results.
RunExtendPrepends ==
    /\ pc = "fetch_done"
    /\ results' = fetched \o results
    /\ IF family = "coliform"
          THEN /\ family' = "chemical"
               /\ pc' = "fetch_call"
          ELSE /\ pc' = "sleep"
               /\ UNCHANGED family
    /\ UNCHANGED <<requests, log, discVars, system_info, replies, fetched, uuids,
                   listing, idx, files, uploads>>

\* Lines 477-484: the records a fetch returned are appended to
\* self.results; the chemical fetch follows the coliform fetch.
RunExtend ==
    /\ pc = "fetch_done"
    /\ results' = results \o fetched
    /\ IF family = "coliform"
          THEN /\ family' = "chemical"
               /\ pc' = "fetch_call"
          ELSE /\ pc' = "sleep"
               /\ UNCHANGED family
    /\ UNCHANGED <<requests, log, discVars, system_info, replies, fetched, uuids,
                   listing, idx, files, uploads>>

\* Mutant: the delay is skipped after an entity whose last fetch gave
\* nothing.
RunSleepOnSuccessOnly ==
    /\ pc = "sleep"
    /\ requests' = IF fetched = <<>> THEN requests
                   ELSE Append(requests, Request("sleep", "none", system_info.system_id.s, 0))
    /\ idx' = idx + 1
    /\ pc' = "entity"
    /\ UNCHANGED <<log, discVars, fetchVars, results, listing, files, uploads>>

\* Line 487: await asyncio.sleep(1), then the next iteration.
RunSleep ==
    /\ pc = "sleep"
    /\ requests' = Append(requests, Request("sleep", "none", system_info.system_id.s, 0))
    /\ idx' = idx + 1
    /\ pc' = "entity"
    /\ UNCHANGED <<log, discVars, fetchVars, results, listing, files, uploads>>

\* Lines 495-504: _save_results writes self.results to a timestamped file.
RunSave ==
    /\ pc = "save"
    /\ files' = Append(files, results)
    /\ pc' = "upload"
    /\ UNCHANGED <<requests, log, discVars, fetchVars, results, listing, idx, uploads>>

\* Mutant: the batch is cleared once its upload was tried.
RunUploadClearsResults(env, outcome) ==
    /\ pc = "upload"
    /\ pc' = "run_done"
    /\ results' = <<>>
    /\ uploads' = IF env = "set" /\ outcome # "upload_raises"
                     THEN Append(uploads, files[Len(files)])
                     ELSE uploads
    /\ log' = IF env = "set" /\ outcome = "ok" THEN log
              ELSE Append(log, LogEntry("error", "Failed to upload"))
    /\ UNCHANGED <<requests, discVars, fetchVars, listing, idx, files>>

\* Mutant: no try/except around the upload: missing credentials raise out
\* of run.
RunUploadRaises(env, outcome) ==
    /\ pc = "upload"
    /\ pc' = IF env = "missing" THEN "run_raised" ELSE "run_done"
    /\ uploads' = IF env = "set" /\ outcome # "upload_raises"
                     THEN Append(uploads, files[Len(files)])
                     ELSE uploads
    /\ log' = IF env = "set" /\ outcome = "ok" THEN log
              ELSE Append(log, LogEntry("error", "Failed to upload"))
    /\ UNCHANGED <<requests, discVars, fetchVars, results, listing, idx, files>>

\* Lines 513-558: _upload_to_spaces.  env is the state of DO_SPACES_KEY and
\* DO_SPACES_SECRET: "missing" (os.getenv gives None, and line 520 raises
\* on None[:10]), "empty" (the empty string: line 522 skips the upload) or
\* "set"; outcome is what the bucket does.  Every failure is caught and
\* logged; run ends.
RunUpload(env, outcome) ==
    /\ pc = "upload"
    /\ pc' = "run_done"
    /\ uploads' = IF env = "set" /\ outcome # "upload_raises"
                     THEN Append(uploads, files[Len(files)])
                     ELSE uploads
    /\ log' = CASE env = "missing" -> Append(log, LogEntry("error", "Failed to upload"))
                [] env = "empty" -> Append(log, LogEntry("warning", "Skipping upload"))
                [] outcome = "upload_raises" -> Append(log, LogEntry("error", "Failed to upload"))
                [] outcome = "verify_raises" -> Append(log, LogEntry("error", "Upload verification failed"))
                [] outcome = "verify_empty" -> Append(log, LogEntry("warning", "Upload verification failed"))
                [] OTHER -> log
    /\ UNCHANGED <<requests, discVars, fetchVars, results, listing, idx, files>>

----------------------------------------------------------------------------
(* FantineScraper (src/scraper.py): run, its tasks and the shutdown signal. *)
(*                                                                         *)
(* run is one coroutine (the coordinator loop) and one task per URL, all   *)
(* on one event loop: a task runs only while the coordinator is suspended  *)
(* at an await that yields (the wait for the next finished task, the       *)
(* delay, the close of the session).  The signal handler runs between any  *)
(* two steps.                                                              *)

\* ScrapingConfig, lines 39-47, with the number of target URLs for the list.
Config(urls, maxp, concurrent, delay) ==
    [target_urls |-> urls, max_pages |-> maxp,
     max_concurrent |-> concurrent, delay_seconds |-> delay]

NoConfig == Config(0, 0, 0, 0)

\* Lines 91-95 (before any run): no session, the flag set.
ScraperIdle ==
    /\ config = NoConfig
    /\ running = TRUE
    /\ session = "none"
    /\ sem = 0
    /\ task = <<>>
    /\ done_queue = <<>>

\* TennesseeWaterScraper.run has not started.
TnIdle == system_links = <<>>

\* A task of as_completed.  phase: "scheduled" (wrapped in a task, its
\* coroutine not entered yet), "waiting" (blocked in semaphore.acquire),
\* "inflight" (holds the semaphore, its GET issued: the GETs of the general
\* scraper are read off the tasks, not off `requests`), "returned"
\* (_scrape_url returned a ScrapedData) or "cancelled".  cause says why it
\* returned: "response", "error" (the request raised on its own), "closed"
\* (the request raised because the session was closed under it), "refused"
\* (the session was closed before the GET: nothing was sent).
Task(phase, status, cause) == [phase |-> phase, status |-> status, cause |-> cause]

\* Lines 182-214: what _extract_title and _clean_content give for the page
\* served at a URL; the source serves a page of its own at each URL.
PageTitle(url) == <<"t">> \o Digits(url)

PageText(url) == <<"c">> \o Digits(url)

\* Lines 151-163 and 172-180: the ScrapedData of a URL, by its url and
\* status_code (0 when the request raised): title and content are read
\* from the page, and are empty when the request raised.
ScrapedData(url, status) ==
    [url |-> url, status_code |-> status,
     title |-> IF status = 0 THEN <<>> ELSE PageTitle(url),
     content |-> IF status = 0 THEN <<>> ELSE PageText(url)]

\* Mutant: one task per URL of target_urls.
TaskCountAll(c) == c.target_urls

\* Line 290: one task per URL of target_urls[:max_pages].
TaskCount(c) == Min(c.target_urls, c.max_pages)

\* The coordinator is suspended at an await that yields to the event loop:
\* line 299 (the next finished task), line 307 (the delay), line 329 (the
\* close of the session).
Suspended == pc \in {"fs_await", "fs_sleep", "fs_closing"}

InFlight == {i \in 1..Len(task) : task[i].phase = "inflight"}

\* Lines 106-109: _signal_handler.
FsSignal ==
    /\ pc \in {"fs_start", "fs_loop", "fs_await", "fs_sleep", "fs_save",
               "fs_upload", "fs_close", "fs_closing", "fs_return"}
    /\ running
    /\ running' = FALSE
    /\ UNCHANGED <<pc, requests, log, replies, results, files, uploads, ohioVars,
                   config, session, sem, task, done_queue, system_links>>

\* Lines 279-294: the session is created, the semaphore gets max_concurrent
\* permits, and as_completed wraps every coroutine in a task.
FsStart ==
    /\ pc = "fs_start"
    /\ session' = "open"
    /\ sem' = config.max_concurrent
    /\ task' = [i \in 1..TaskCount(config) |-> Task("scheduled", 0, "none")]
    /\ pc' = "fs_loop"
    /\ UNCHANGED <<requests, log, replies, results, files, uploads, ohioVars,
                   config, running, done_queue, system_links>>

\* Mutant: the shutdown is logged but the loop goes on.
FsLoopNoBreak ==
    /\ pc = "fs_loop"
    /\ IF Len(results) = Len(task)
          THEN pc' = "fs_save" /\ UNCHANGED log
       ELSE IF ~running
          THEN /\ pc' = "fs_await"
               /\ log' = Append(log, LogEntry("info", "Shutdown requested"))
       ELSE pc' = "fs_await" /\ UNCHANGED log
    /\ UNCHANGED <<requests, replies, results, files, uploads, ohioVars,
                   scraperVars, system_links>>

\* Lines 294-297: the next iteration of the loop over as_completed.  The
\* loop ends after as many iterations as there are tasks; an iteration
\* that finds the flag cleared logs the shutdown and breaks.
FsLoop ==
    /\ pc = "fs_loop"
    /\ IF Len(results) = Len(task)
          THEN pc' = "fs_save" /\ UNCHANGED log
       ELSE IF ~running
          THEN /\ pc' = "fs_save"
               /\ log' = Append(log, LogEntry("info", "Shutdown requested"))
       ELSE pc' = "fs_await" /\ UNCHANGED log
    /\ UNCHANGED <<requests, replies, results, files, uploads, ohioVars,
                   scraperVars, system_links>>

\* Lines 299-307: the loop takes the next finished task, appends its
\* result, and sleeps when delay_seconds is positive.
FsAwait ==
    /\ pc = "fs_await"
    /\ done_queue # <<>>
    /\ LET i == Head(done_queue)
       IN results' = Append(results, ScrapedData(i, task[i].status))
    /\ done_queue' = Tail(done_queue)
    /\ pc' = IF config.delay_seconds > 0 THEN "fs_sleep" ELSE "fs_loop"
    /\ UNCHANGED <<requests, log, replies, files, uploads, ohioVars,
                   config, running, session, sem, task, system_links>>

\* Line 307: the delay is over.
FsSleep ==
    /\ pc = "fs_sleep"
    /\ pc' = "fs_loop"
    /\ UNCHANGED <<requests, log, replies, results, files, uploads, ohioVars,
                   scraperVars, system_links>>

\* Mutant: no semaphore guards _scrape_url.
SemaphoreAlwaysFree == TRUE

\* Line 286: `async with semaphore` enters without waiting only while the
\* semaphore has a permit left.
SemaphoreFree == sem > 0

\* Line 286, no permit left: the task waits in semaphore.acquire.
TaskBlock(i) ==
    /\ Suspended
    /\ i \in 1..Len(task)
    /\ task[i].phase = "scheduled"
    /\ ~SemaphoreFree
    /\ task' = [task EXCEPT ![i] = Task("waiting", 0, "none")]
    /\ UNCHANGED <<pc, requests, log, replies, results, files, uploads, ohioVars,
                   config, running, session, sem, done_queue, system_links>>

\* Lines 286-287 and 138-141: a task that has not started, or that waits
\* for the semaphore, takes a permit and calls session.get.  On a closed
\* session the call raises before anything is sent: lines 168-180 log the
\* failure and return a ScrapedData of status 0, and the permit is given
\* back at once.
TaskAcquire(i) ==
    /\ Suspended
    /\ i \in 1..Len(task)
    /\ task[i].phase \in {"scheduled", "waiting"}
    /\ SemaphoreFree
    /\ IF session = "closed"
          THEN /\ task' = [task EXCEPT ![i] = Task("returned", 0, "refused")]
               /\ done_queue' = Append(done_queue, i)
               /\ log' = Append(log, LogEntry("error", "Failed to scrape"))
               /\ UNCHANGED sem
          ELSE /\ task' = [task EXCEPT ![i] = Task("inflight", 0, "none")]
               /\ sem' = sem - 1
               /\ UNCHANGED <<done_queue, log>>
    /\ UNCHANGED <<pc, requests, replies, results, files, uploads, ohioVars,
                   config, running, session, system_links>>

\* Mutant: the task appends its result to self.results itself, and the
\* loop appends it again.
TaskResponseAppends(i, st) ==
    /\ Suspended
    /\ i \in 1..Len(task)
    /\ task[i].phase = "inflight"
    /\ task' = [task EXCEPT ![i] = Task("returned", st, "response")]
    /\ sem' = sem + 1
    /\ done_queue' = Append(done_queue, i)
    /\ results' = Append(results, ScrapedData(i, st))
    /\ UNCHANGED <<pc, requests, log, replies, files, uploads, ohioVars,
                   config, running, session, system_links>>

\* Lines 141-166: the response arrives with any status; _scrape_url returns
\* its ScrapedData and the permit is given back.
TaskResponse(i, st) ==
    /\ Suspended
    /\ i \in 1..Len(task)
    /\ task[i].phase = "inflight"
    /\ task' = [task EXCEPT ![i] = Task("returned", st, "response")]
    /\ sem' = sem + 1
    /\ done_queue' = Append(done_queue, i)
    /\ UNCHANGED <<pc, requests, log, replies, results, files, uploads, ohioVars,
                   config, running, session, system_links>>

\* Lines 168-180: the request raises (a connection error, a timeout, or,
\* once the session is closed, the connection closed under it);
\* _scrape_url logs it and returns a ScrapedData of status 0.
TaskError(i) ==
    /\ Suspended
    /\ i \in 1..Len(task)
    /\ task[i].phase = "inflight"
    /\ task' = [task EXCEPT ![i] =
                   Task("returned", 0, IF session = "closed" THEN "closed" ELSE "error")]
    /\ sem' = sem + 1
    /\ done_queue' = Append(done_queue, i)
    /\ log' = Append(log, LogEntry("error", "Failed to scrape"))
    /\ UNCHANGED <<pc, requests, replies, results, files, uploads, ohioVars,
                   config, running, session, system_links>>

\* Mutant: a run that was asked to shut down returns without a file.
FsSaveUnlessShutdown ==
    /\ pc = "fs_save"
    /\ files' = IF running THEN Append(files, results) ELSE files
    /\ pc' = "fs_upload"
    /\ UNCHANGED <<requests, log, replies, results, uploads, ohioVars,
                   scraperVars, system_links>>

\* Lines 216-235: _save_results writes self.results to one timestamped
\* file, as JSON or as text.
FsSave ==
    /\ pc = "fs_save"
    /\ files' = Append(files, results)
    /\ pc' = "fs_upload"
    /\ UNCHANGED <<requests, log, replies, results, uploads, ohioVars,
                   scraperVars, system_links>>

\* Lines 242-272: _upload_to_spaces.  hasKeys: DO_SPACES_KEY and
\* DO_SPACES_SECRET are set and not empty; without them the upload is
\* skipped with a warning.  ok: the upload does not raise; a failure is
\* caught and logged.
FsUpload(hasKeys, ok) ==
    /\ pc = "fs_upload"
    /\ Len(files) > 0 => uploads' = IF hasKeys /\ ok
                                       THEN Append(uploads, files[Len(files)])
                                       ELSE uploads
    /\ Len(files) = 0 => UNCHANGED uploads
    /\ log' = IF ~hasKeys THEN Append(log, LogEntry("warning", "Skipping upload"))
              ELSE IF ~ok THEN Append(log, LogEntry("error", "Failed to upload"))
              ELSE log
    /\ pc' = "fs_close"
    /\ UNCHANGED <<requests, replies, results, files, ohioVars,
                   scraperVars, system_links>>

\* Lines 327-329: the session is closed.  The session counts as closed
\* from the call on; whether the await yields to the event loop before
\* run returns depends on the connections still open and on the library
\* (yields): both happen.
FsClose(yields) ==
    /\ pc = "fs_close"
    /\ session' = "closed"
    /\ pc' = IF yields THEN "fs_closing" ELSE "fs_return"
    /\ UNCHANGED <<requests, log, replies, results, files, uploads, ohioVars,
                   config, running, sem, task, done_queue, system_links>>

\* Line 329: the close of the session is over, run returns.
FsClosed ==
    /\ pc = "fs_closing"
    /\ pc' = "fs_return"
    /\ UNCHANGED <<requests, log, replies, results, files, uploads, ohioVars,
                   scraperVars, system_links>>

\* Line 755: asyncio.run(scraper.run()) returns: the event loop cancels
\* every task that has not finished, the in-flight ones give their permits
\* back, and the loop is closed.
FsCancelAll ==
    /\ pc = "fs_return"
    /\ task' = [i \in 1..Len(task) |->
                   IF task[i].phase = "returned" THEN task[i]
                   ELSE Task("cancelled", 0, "none")]
    /\ sem' = sem + Cardinality(InFlight)
    /\ pc' = "fs_done"
    /\ UNCHANGED <<requests, log, replies, results, files, uploads, ohioVars,
                   config, running, session, done_queue, system_links>>

----------------------------------------------------------------------------
(* TennesseeWaterScraper (src/scraper.py): run, _generate_test_data,       *)
(* _save_results, _upload_to_spaces.  Strings are sequences of characters. *)

\* Line 354: systems_root_url, by its last path segment.
SystemsRootUrl == <<"J", "S", "P", "/">>

\* The listing page: whether it holds the table 'AutoNumber7', and the href
\* of every link of that table, in order.
ListingPage(hasTable, hrefs) == [table |-> hasTable, hrefs |-> hrefs]

NoPage == ListingPage(FALSE, <<>>)

\* `sub in s` for strings.
Contains(s, sub) ==
    \E k \in 0..(Len(s) - Len(sub)) : SubSeq(s, k + 1, k + Len(sub)) = sub

\* Lines 360-374: scrape_system_links.  Without the table there is no
\* link; an href that is empty once stripped, or that contains "Fact", is
\* left out; the others are appended to the root URL.
RECURSIVE ScrapeLinks(_)
ScrapeLinks(hrefs) ==
    IF hrefs = <<>> THEN <<>>
    ELSE LET href == Strip(Head(hrefs))
         IN (IF href # <<>> /\ ~Contains(href, <<"F", "a", "c", "t">>)
                THEN <<SystemsRootUrl \o href>>
                ELSE <<>>) \o ScrapeLinks(Tail(hrefs))

ScrapeSystemLinks(page) == IF page.table THEN ScrapeLinks(page.hrefs) ELSE <<>>

\* The GET of a page of the Tennessee source: op is "listing", "home",
\* "summary" or "detail".
TnRequest(op, url) == [op |-> op, url |-> url]

TnReply(st, page) == [status |-> st, page |-> page]

\* f"{i:0{w}d}" for i >= 0: the digits of i, padded with zeros to width w.
RECURSIVE ZeroPad(_, _)
ZeroPad(s, w) == IF Len(s) >= w THEN s ELSE ZeroPad(<<"0">> \o s, w)

\* Mutant: the pwsid is padded to three digits.
TnTestResultShortPad(i) ==
    [state |-> <<"T", "N">>,
     pwsid |-> <<"T", "N", "0", "0", "0">> \o ZeroPad(Digits(i), 3),
     result_id |-> Digits(i),
     result_lab_sample_number |-> <<"T", "E", "S", "T">> \o ZeroPad(Digits(i), 6),
     result_url |-> SystemsRootUrl \o <<"t", "e", "s", "t">>]

\* Lines 594-619: the i-th test record, by the fields that identify it
\* (the others are literals, or i formatted the same way).
TnTestResult(i) ==
    [state |-> <<"T", "N">>,
     pwsid |-> <<"T", "N", "0", "0", "0">> \o ZeroPad(Digits(i), 4),
     result_id |-> Digits(i),
     result_lab_sample_number |-> <<"T", "E", "S", "T">> \o ZeroPad(Digits(i), 6),
     result_url |-> SystemsRootUrl \o <<"t", "e", "s", "t">>]

\* Line 590: num_results, the default of _generate_test_data (line 584
\* calls it without argument).
NumResults == 1000

\* Lines 592-620: test_results, for i in range(num_results).
GenerateTestData(n) == [k \in 1..n |-> TnTestResult(k - 1)]

\* Lines 518-538: run opens the session and asks for the listing page.
TnStart ==
    /\ pc = "tn_start"
    /\ system_links' = <<>>
    /\ requests' = Append(requests, TnRequest("listing", SystemsRootUrl))
    /\ pc' = "tn_listing"
    /\ UNCHANGED <<log, replies, results, files, uploads, ohioVars, scraperVars>>

\* Lines 538-545 and 578-579: the listing page answers.  Another status
\* than 200 is logged; status 200 gives system_links.  Either way the try
\* clause ended without exception, so what runs next is its else clause
\* (line 578), which only logs: the loop over the systems (lines 551-577)
\* belongs to the except clause.
TnListingReply(st, page) ==
    /\ pc = "tn_listing"
    /\ replies' = Append(replies, TnReply(st, page))
    /\ IF st # 200
          THEN /\ log' = log \o <<LogEntry("error", "Failed to fetch main page"),
                                  LogEntry("warning", "Continuing with test data generation"),
                                  LogEntry("info", "No system links found")>>
               /\ UNCHANGED system_links
          ELSE /\ system_links' = ScrapeSystemLinks(page)
               /\ log' = Append(log, LogEntry("info", "No system links found"))
    /\ pc' = "tn_export"
    /\ UNCHANGED <<requests, results, files, uploads, ohioVars, scraperVars>>

\* Lines 546-577: the listing request raises.  The except clause logs it
\* and then holds the loop over the systems, guarded by `if system_links`;
\* system_links is still the [] of line 536 whenever the clause runs, so
\* the loop body is never entered.
TnListingRaise ==
    /\ pc = "tn_listing"
    /\ replies' = Append(replies, TnReply(0, NoPage))
    /\ log' = log \o <<LogEntry("error", "Error fetching main page"),
                       LogEntry("warning", "Continuing with test data generation")>>
    /\ pc' = IF system_links # <<>> THEN "tn_system" ELSE "tn_export"
    /\ UNCHANGED <<requests, results, files, uploads, system_links, ohioVars, scraperVars>>

\* Lines 581-584 and 590-623: without results, the test records are
\* generated and appended to self.results.
TnGenerate ==
    /\ pc = "tn_export"
    /\ IF results = <<>>
          THEN /\ results' = results \o GenerateTestData(NumResults)
               /\ log' = Append(log, LogEntry("warning", "No results scraped, generating test data"))
          ELSE UNCHANGED <<results, log>>
    /\ pc' = "tn_save"
    /\ UNCHANGED <<requests, replies, files, uploads, system_links, ohioVars, scraperVars>>

\* Lines 625-636: _save_results writes self.results to a timestamped file.
TnSave ==
    /\ pc = "tn_save"
    /\ files' = Append(files, results)
    /\ pc' = "tn_upload"
    /\ UNCHANGED <<requests, log, replies, results, uploads, system_links,
                   ohioVars, scraperVars>>

\* Lines 643-690: _upload_to_spaces, as in the Ohio scraper: env is the
\* state of DO_SPACES_KEY and DO_SPACES_SECRET ("missing": line 652 raises
\* on None[:10]; "empty": line 654 skips the upload; "set"), outcome is
\* what the bucket does.  Every failure is caught and logged; run ends.
TnUpload(env, outcome) ==
    /\ pc = "tn_upload"
    /\ pc' = "tn_done"
    /\ uploads' = IF env = "set" /\ outcome # "upload_raises"
                     THEN Append(uploads, files[Len(files)])
                     ELSE uploads
    /\ log' = CASE env = "missing" -> Append(log, LogEntry("error", "Failed to upload"))
                [] env = "empty" -> Append(log, LogEntry("warning", "Skipping upload"))
                [] outcome = "upload_raises" -> Append(log, LogEntry("error", "Failed to upload"))
                [] outcome = "verify_raises" -> Append(log, LogEntry("error", "Upload verification failed"))
                [] outcome = "verify_empty" -> Append(log, LogEntry("warning", "Upload verification failed"))
                [] OTHER -> log
    /\ UNCHANGED <<requests, replies, results, files, system_links, ohioVars, scraperVars>>

----------------------------------------------------------------------------
(* TennesseeWaterScraper: the chained traversal, scrape_system_links,      *)
(* scrape_chemrad_results_summary and scrape_chemrad_results_detail, each  *)
(* as a function of the page it is given.                                  *)

\* The answer to the GET of a page, as far as the traversal reads it:
\* raises (session.get or response.text() raises), the status, the ids of
\* the tables the page holds, whether parsing the page raises
\* (BeautifulSoup, pd.read_html or an index into their result), the number
\* of rows of its table 'AutoNumber8' below the header, the hrefs of its
\* links.
TvResponse(raises, st, tables, parseRaises, rows, hrefs) ==
    [raises |-> raises, status |-> st, tables |-> tables,
     parse_raises |-> parseRaises, rows |-> rows, hrefs |-> hrefs]

\* An href of a summary page: its text, whether the text contains
\* 'SingleResults', and the part of it between 'sample_number=' and
\* '&collection_date' (Absent when the text has no such part).
SampleHref(text, single, number) == [text |-> text, single |-> single, number |-> number]

\* Lines 425-429: the links that contain 'SingleResults' or 'sample_number'.
RECURSIVE SampleLinks(_)
SampleLinks(hrefs) ==
    IF hrefs = <<>> THEN <<>>
    ELSE (IF Head(hrefs).single \/ Head(hrefs).number.k = "str"
             THEN <<Head(hrefs)>> ELSE <<>>) \o SampleLinks(Tail(hrefs))

\* Lines 360-374 under run's try (lines 537-548): scrape_system_links has
\* no handler of its own; when parsing raises, the exception leaves it.
ScrapeSystemLinksOutcome(r) ==
    IF r.parse_raises THEN Outcome(<<>>, TRUE)
    ELSE Outcome(ScrapeSystemLinks(ListingPage("AutoNumber7" \in r.tables, r.hrefs)), FALSE)

\* Lines 404-451: scrape_chemrad_results_summary.  One sample per sample
\* link that has a row in the table; every exception is caught.
ScrapeChemradSummary(url, r) ==
    IF r.raises \/ r.status # 200 \/ r.parse_raises \/ "AutoNumber8" \notin r.tables
       THEN Outcome(<<>>, FALSE)
       ELSE LET links == SampleLinks(r.hrefs)
            IN Outcome([i \in 1..Min(Len(links), r.rows) |->
                           [sample_number |->
                                IF links[i].number.k = "str" THEN links[i].number.s
                                ELSE <<"s", "a", "m", "p", "l", "e", "_">> \o Digits(i - 1),
                            sample_url |->
                                IF Len(links[i].text) >= 4
                                      /\ SubSeq(links[i].text, 1, 4) = <<"h", "t", "t", "p">>
                                   THEN links[i].text ELSE url \o links[i].text]],
                       FALSE)

\* Mutant: the status of the detail page is not looked at.
ScrapeChemradDetailAnyStatus(url, sample_data, r) ==
    IF r.raises \/ r.parse_raises
          \/ "AutoNumber4" \notin r.tables \/ "AutoNumber8" \notin r.tables
       THEN Outcome(<<>>, FALSE)
       ELSE Outcome([i \in 1..r.rows |->
                        [state |-> <<"T", "N">>,
                         result_id |-> Digits(i),
                         result_lab_sample_number |-> sample_data.sample_number,
                         result_url |-> url]],
                    FALSE)

\* Lines 453-514: scrape_chemrad_results_detail.  One record per row of
\* the results table; every exception is caught.
ScrapeChemradDetail(url, sample_data, r) ==
    IF r.raises \/ r.status # 200 \/ r.parse_raises
          \/ "AutoNumber4" \notin r.tables \/ "AutoNumber8" \notin r.tables
       THEN Outcome(<<>>, FALSE)
       ELSE Outcome([i \in 1..r.rows |->
                        [state |-> <<"T", "N">>,
                         result_id |-> Digits(i),
                         result_lab_sample_number |-> sample_data.sample_number,
                         result_url |-> url]],
                    FALSE)

\* What the caller of a traversal function gets: its list, or its exception.
TvReturn(o) ==
    /\ fetched' = o.items
    /\ pc' = IF o.raised THEN "tv_raised" ELSE "tv_done"
    /\ UNCHANGED <<requests, log, replies, results, files, uploads, skip, total_count,
                   all_systems, pages, returned, family, system_info, uuids,
                   listing, idx, faults, scraperVars, system_links>>

\* scrape_system_links on the page held in `replies`.
TvLinks ==
    /\ pc = "tv_call" /\ family = "links"
    /\ TvReturn(ScrapeSystemLinksOutcome(replies[1]))

\* scrape_chemrad_results_summary on the answer held in `replies`.
TvSummary ==
    /\ pc = "tv_call" /\ family = "summary"
    /\ TvReturn(ScrapeChemradSummary(SystemsRootUrl, replies[1]))

\* scrape_chemrad_results_detail on the answer held in `replies`.
TvDetail ==
    /\ pc = "tv_call" /\ family = "detail"
    /\ TvReturn(ScrapeChemradDetail(SystemsRootUrl, [sample_number |-> <<"7">>], replies[1]))

----------------------------------------------------------------------------
(* SpecDiscovery: collect_all_systems against a source that answers every  *)
(* request with any status, any page length up to PageSize + 1 and any     *)
(* advertised count, or fails.                                             *)

InitDiscovery ==
    /\ pc = "disc_loop"
    /\ requests = <<>>
    /\ log = <<>>
    /\ DiscInit
    /\ FetchIdle
    /\ RunIdle
    /\ ScraperIdle
    /\ TnIdle

NextDiscovery ==
    /\ \/ DiscIssue
       \/ \E n \in 0..(PageSize + 1), c \in Counts : DiscPageOk(n, c)
       \/ \E st \in {404, 500} : DiscPageStatus(st)
       \/ DiscPageRaise
    /\ UNCHANGED <<faults, scraperVars, system_links>>

SpecDiscovery == InitDiscovery /\ [][NextDiscovery]_vars

----------------------------------------------------------------------------
(* SpecFetch: one call of get_coliform_results or get_chemical_results for *)
(* one entity, against a source that answers the configuration and the     *)
(* query request with any status and body, or fails.                       *)

InitFetch ==
    /\ pc = "fetch_call"
    /\ requests = <<>>
    /\ log = <<>>
    /\ RunIdle
    /\ DiscInit
    /\ family \in Families
    /\ system_info = SystemInfo(<<"A">>, <<"n", "A">>)
    /\ replies = <<>>
    /\ fetched = <<>>
    /\ uuids = 0
    /\ ScraperIdle
    /\ TnIdle

NextFetch ==
    /\ \/ FetchCall
       \/ \E st \in {200, 204, 500} : ConfigReply(st)
       \/ ConfigRaise
       \/ \E st \in {200, 204, 500} :
             \/ QueryReply(st, "empty", NoList)
             \/ QueryReply(st, "garbage", NoList)
             \/ \E v \in QueryValues : QueryReply(st, "json", v)
       \/ QueryRaise
    /\ UNCHANGED <<faults, scraperVars, system_links>>

SpecFetch == InitFetch /\ [][NextFetch]_vars

----------------------------------------------------------------------------
(* SpecRun: OhioWaterScraper.run against a source whose listing holds up   *)
(* to MaxSystems entities, which pages its listing honestly, answers a     *)
(* query with two samples of 1 and 3 sub-results, and fails or answers     *)
(* with nothing at most MaxFaults times.                                   *)

\* The malformed entities: no NUMBER0, a null NUMBER0, a null NAME.
BadEntities ==
    {Entity(Absent, JStr(<<"n">>)), Entity(JNull, JStr(<<"n">>)),
     Entity(JStr(<<"z", " ">>), JNull)}

\* Listings: well-formed but for at most one entity.
Listings ==
    {[e \in 1..n |-> BaseEntity(e)] : n \in 0..MaxSystems}
        \cup UNION {{[[e \in 1..n |-> BaseEntity(e)] EXCEPT ![j] = b] :
                        j \in 1..n, b \in BadEntities} : n \in 1..MaxSystems}

IsBase(l) == \A e \in 1..Len(l) : l[e] = BaseEntity(e)

\* The body of a query answered with data: two samples, of 1 and 3
\* sub-results.
RunValue ==
    List(<<BaseSample(1, List(BaseList(1))), BaseSample(2, List(BaseList(3)))>>)

InitRun ==
    /\ pc = "run_start"
    /\ requests = <<>>
    /\ log = <<>>
    /\ DiscInit
    /\ FetchIdle
    /\ results = <<>>
    /\ listing \in Listings
    /\ idx = 0
    /\ files = <<>>
    /\ uploads = <<>>
    /\ faults = IF IsBase(listing) THEN 0 ELSE 1
    /\ ScraperIdle
    /\ TnIdle

\* The source fails this request or answers it with nothing; the scrapers
\* of src/scraper.py are not running.
Fault ==
    /\ faults < MaxFaults
    /\ faults' = faults + 1
    /\ UNCHANGED <<scraperVars, system_links>>

NoFault == UNCHANGED <<faults, scraperVars, system_links>>

NextRun ==
    \/ RunStart /\ NoFault
    \/ XsrfReply(200, TRUE) /\ NoFault
    \/ (\E st \in {200, 500} : XsrfReply(st, FALSE)) /\ Fault
    \/ XsrfRaise /\ Fault
    \/ DiscIssue /\ NoFault
    \/ DiscPageOk(HonestLen(Len(listing), skip), JNum(Len(listing))) /\ NoFault
    \/ DiscPageStatus(500) /\ Fault
    \/ DiscPageRaise /\ Fault
    \/ RunAfterDiscovery /\ NoFault
    \/ RunEntity /\ NoFault
    \/ FetchCall /\ NoFault
    \/ ConfigReply(200) /\ NoFault
    \/ ConfigReply(500) /\ Fault
    \/ ConfigRaise /\ Fault
    \/ QueryReply(200, "json", RunValue) /\ NoFault
    \/ QueryReply(204, "empty", NoList) /\ Fault
    \/ QueryRaise /\ Fault
    \/ RunExtend /\ NoFault
    \/ RunSleep /\ NoFault
    \/ RunSave /\ NoFault
    \/ (\E env \in {"missing", "empty"} : RunUpload(env, "ok")) /\ NoFault
    \/ (\E o \in {"ok", "upload_raises", "verify_raises", "verify_empty"} :
           RunUpload("set", o)) /\ NoFault

SpecRun == InitRun /\ [][NextRun]_vars

----------------------------------------------------------------------------
(* SpecScraper: FantineScraper.run for every configuration within the      *)
(* bounds, against a source that answers a GET with a status or lets it    *)
(* fail, under every delivery of the shutdown signal and every schedule    *)
(* of the tasks.                                                           *)

Configs ==
    {Config(n, MaxPages, c, d) : n \in 1..MaxUrls, c \in 1..MaxConcurrent, d \in {0, 1}}

InitScraper ==
    /\ pc = "fs_start"
    /\ requests = <<>>
    /\ log = <<>>
    /\ DiscInit
    /\ FetchIdle
    /\ RunIdle
    /\ TnIdle
    /\ config \in Configs
    /\ running = TRUE
    /\ session = "none"
    /\ sem = 0
    /\ task = <<>>
    /\ done_queue = <<>>

NextScraper ==
    \/ FsSignal
    \/ FsStart
    \/ FsLoop
    \/ FsAwait
    \/ FsSleep
    \/ \E i \in 1..MaxUrls : TaskBlock(i)
    \/ \E i \in 1..MaxUrls : TaskAcquire(i)
    \/ \E i \in 1..MaxUrls : TaskResponse(i, 200)
    \/ \E i \in 1..MaxUrls : TaskError(i)
    \/ FsSave
    \/ \E hasKeys \in BOOLEAN, ok \in BOOLEAN : FsUpload(hasKeys, ok)
    \/ \E yields \in BOOLEAN : FsClose(yields)
    \/ FsClosed
    \/ FsCancelAll

SpecScraper == InitScraper /\ [][NextScraper]_vars

----------------------------------------------------------------------------
(* SpecTennessee: TennesseeWaterScraper.run against a source whose listing *)
(* page answers with any status and any links, or fails.                   *)

\* The hrefs a listing page may hold: an empty one, a blank one, a fact
\* sheet, two systems (one padded with a space).
Hrefs == {<<>>, <<" ">>, <<"F", "a", "c", "t", "1">>, <<"A">>, <<" ", "B">>}

RECURSIVE HrefLists(_)
HrefLists(n) ==
    IF n = 0 THEN {<<>>}
    ELSE HrefLists(n - 1) \cup
         {Append(l, h) : l \in {x \in HrefLists(n - 1) : Len(x) = n - 1}, h \in Hrefs}

ListingPages ==
    {ListingPage(t, l) : t \in BOOLEAN, l \in HrefLists(MaxLinks)}

InitTennessee ==
    /\ pc = "tn_start"
    /\ requests = <<>>
    /\ log = <<>>
    /\ DiscInit
    /\ FetchIdle
    /\ RunIdle
    /\ ScraperIdle
    /\ TnIdle

NextTennessee ==
    \/ TnStart
    \/ \E page \in ListingPages : TnListingReply(200, page)
    \/ \E st \in {403, 500} : TnListingReply(st, NoPage)
    \/ TnListingRaise
    \/ TnGenerate
    \/ TnSave
    \/ \E env \in {"missing", "empty"} : TnUpload(env, "ok")
    \/ \E o \in {"ok", "upload_raises", "verify_raises", "verify_empty"} : TnUpload("set", o)

SpecTennessee == InitTennessee /\ [][NextTennessee]_vars

----------------------------------------------------------------------------
(* SpecHarvesters: one run of either harvester, OhioWaterScraper.run (as   *)
(* in SpecRun) or TennesseeWaterScraper.run (as in SpecTennessee).         *)

InitHarvesters == InitRun \/ InitTennessee

NextHarvesters == NextRun \/ NextTennessee

SpecHarvesters == InitHarvesters /\ [][NextHarvesters]_vars

----------------------------------------------------------------------------
(* SpecTraversal: one call of a function of the Tennessee traversal, on    *)
(* any answer within the bounds.                                           *)

SampleHrefs ==
    {SampleHref(<<"S", "R">>, TRUE, Absent),
     SampleHref(<<"h", "t", "t", "p", "=", "4", "2", "&">>, FALSE, JStr(<<"4", "2">>)),
     SampleHref(<<"x">>, FALSE, Absent)}

\* The link lists of a page: a listing page holds fact sheet links, a
\* summary page sample links, a detail page none that is read.
TvHrefLists(fn) ==
    IF fn = "links" THEN HrefLists(MaxLinks)
    ELSE IF fn = "summary"
         THEN {<<>>} \cup {<<h>> : h \in SampleHrefs}
                     \cup {<<h, g>> : h \in SampleHrefs, g \in SampleHrefs}
    ELSE {<<>>}

\* The answers a function of the traversal can be given; only a function
\* that issues the request itself can see the request raise.
TvInputs(fn) ==
    {TvResponse(FALSE, st, tables, pr, rows, hrefs) :
        st \in {200, 404},
        tables \in SUBSET {"AutoNumber4", "AutoNumber7", "AutoNumber8"},
        pr \in BOOLEAN, rows \in 0..MaxRows, hrefs \in TvHrefLists(fn)}
      \cup (IF fn = "links" THEN {} ELSE {TvResponse(TRUE, 0, {}, FALSE, 0, <<>>)})

InitTraversal ==
    /\ pc = "tv_call"
    /\ requests = <<>>
    /\ log = <<>>
    /\ DiscInit
    /\ RunIdle
    /\ ScraperIdle
    /\ TnIdle
    /\ system_info = NoSystem
    /\ fetched = <<>>
    /\ uuids = 0
    /\ family \in {"links", "summary", "detail"}
    /\ \E r \in TvInputs(family) : replies = <<r>>

NextTraversal == TvLinks \/ TvSummary \/ TvDetail

SpecTraversal == InitTraversal /\ [][NextTraversal]_vars

----------------------------------------------------------------------------
(* Claims about collect_all_systems, checked under SpecDiscovery.          *)

\* The total the first page advertised, as the code reads it (0 when the
\* key is absent); -1 when it is not a number.
AdvertisedTotal ==
    IF pages = <<>> THEN -1
    ELSE LET c == Get(pages[1].count, JNum(0))
         IN IF c.k = "num" THEN c.n ELSE -1

\* Every response so far has status 200 and holds
\* min(page_size, total_count - skip) entities.
HonestSoFar ==
    /\ pages # <<>>
    /\ AdvertisedTotal >= 0
    /\ \A i \in 1..Len(pages) :
          /\ pages[i].status = 200
          /\ pages[i].len = HonestLen(AdvertisedTotal, requests[i].skip)

\* The entities of the pages 1..k that were fetched with status 200, in
\* request order.
FetchedUpTo(k) ==
    Flatten([i \in 1..k |->
        IF pages[i].status = 200 THEN Batch(requests[i].skip, pages[i].len) ELSE <<>>])

\* C1: against a source that answers every page with status 200 and the
\* full page min(page_size, total_count - skip), discovery returns exactly
\* total_count entities (the source's first total_count entities).
C1_ExactTotal ==
    (pc = "disc_done" /\ HonestSoFar) =>
        /\ Len(returned) = AdvertisedTotal
        /\ returned = Batch(0, AdvertisedTotal)

C1_Witness ==
    /\ pc = "disc_done"
    /\ HonestSoFar
    /\ AdvertisedTotal = MaxTotal
    /\ Len(pages) = CeilDiv(MaxTotal, PageSize)
    /\ Len(returned) = MaxTotal

\* C2 as stated: against such a source the number of page requests is at
\* most ceil(total_count / page_size), also for total_count = 0.
C2_RequestBoundOriginal ==
    HonestSoFar => Len(requests) <= CeilDiv(AdvertisedTotal, PageSize)

\* C2 as amended: against such a source the number of page requests is at
\* most max(1, ceil(total_count / page_size)): the first request is always
\* issued, the total being read from its response.
C2_RequestBound ==
    HonestSoFar => Len(requests) <= Max(1, CeilDiv(AdvertisedTotal, PageSize))

C2_Witness ==
    /\ pc = "disc_done"
    /\ HonestSoFar
    /\ AdvertisedTotal = MaxTotal
    /\ Len(requests) = CeilDiv(MaxTotal, PageSize)
    /\ Len(requests) > 1

\* The i-th page ends the pagination: status 200 and either fewer than
\* page_size entities or a cumulative count of at least the advertised total.
StopsAt(i) ==
    /\ pages[i].status = 200
    /\ \/ pages[i].len < PageSize
       \/ AdvertisedTotal >= 0 /\ Len(FetchedUpTo(i)) >= AdvertisedTotal

\* C3: requests are issued with skip = 0, page_size, 2*page_size, ...; no
\* request follows the first successful page that is short or reaches the
\* advertised total; the returned list is the concatenation, in request
\* order, of every page fetched.
C3_Pagination ==
    /\ \A i \in 1..Len(requests) : requests[i] = DiscRequest((i - 1) * PageSize)
    /\ \A i \in 1..Len(pages) : StopsAt(i) => (Len(requests) = i /\ pc = "disc_done")
    /\ pc = "disc_done" => returned = FetchedUpTo(Len(pages))
    /\ pc # "disc_done" => all_systems = FetchedUpTo(Len(pages))

C3_Witness ==
    /\ pc = "disc_done"
    /\ Len(pages) = 3
    /\ \A i \in 1..2 : ~StopsAt(i)
    /\ StopsAt(3)
    /\ pages[3].len = 1
    /\ Len(returned) = 2 * PageSize + 1

\* C4: a page request that returns a non-200 status or raises is the last
\* request; discovery then returns (it raises nothing) exactly the entities
\* of the pages fetched before it.
C4_PartialSuccess ==
    \A i \in 1..Len(pages) :
        pages[i].status # 200 =>
            /\ Len(requests) = i
            /\ Len(pages) = i
            /\ pc = "disc_done"
            /\ returned = FetchedUpTo(i - 1)

C4_Witness ==
    /\ pc = "disc_done"
    /\ Len(pages) = 2
    /\ pages[1].status = 200
    /\ pages[2].status = 500
    /\ returned = Batch(0, PageSize)

----------------------------------------------------------------------------
(* Claims about get_coliform_results and get_chemical_results, checked     *)
(* under SpecFetch.                                                        *)

QueryRequests == {i \in 1..Len(requests) : requests[i].op = "query"}

ErrorLogged == \E i \in 1..Len(log) : log[i].level = "error"

\* C5: the query request is issued only after the configuration request of
\* the same entity and family has returned status 200; when that request
\* returns another status or raises, no query request is issued and the
\* fetch returns zero records.
C5_ConfigGatesQuery ==
    /\ \A i \in QueryRequests :
          /\ i > 1
          /\ requests[i - 1] = Request("config", requests[i].family, requests[i].id, 0)
          /\ replies # <<>>
          /\ replies[1].op = "config"
          /\ replies[1].family = requests[i].family
          /\ replies[1].status = 200
    /\ \A j \in 1..Len(replies) :
          (replies[j].op = "config" /\ replies[j].status # 200) =>
              /\ QueryRequests = {}
              /\ pc = "fetch_done"
              /\ fetched = <<>>

C5_Witness ==
    /\ pc = "fetch_done"
    /\ Len(replies) = 2
    /\ replies[1].status = 200
    /\ replies[2].op = "query"
    /\ QueryRequests = {2}
    /\ Len(fetched) > 0

\* C6 as stated: a query response with status 204, or with a success
\* status and an empty body, ends the fetch with zero records and no
\* error-level log entry.
C6_NoContentIsQuiet ==
    \A j \in 1..Len(replies) :
        (/\ replies[j].op = "query"
         /\ \/ replies[j].status = 204
            \/ replies[j].status = 200 /\ replies[j].body = "empty") =>
            /\ pc = "fetch_done"
            /\ fetched = <<>>
            /\ ~ErrorLogged

\* The samples of the query response, when it was JSON holding a list and
\* was not taken for "no results".
RepliedSamples ==
    IF /\ Len(replies) = 2
       /\ replies[2].op = "query"
       /\ replies[2].body = "json"
       /\ replies[2].status # 204
       /\ replies[2].value.k = "list"
    THEN replies[2].value.items
    ELSE <<>>

HasRepliedSamples == RepliedSamples # <<>>

\* The fields of a record that do not come from the sub-result.
SampleLevelFields ==
    {"state", "pwsid", "system_name", "unix_timestamp", "timestamp_utc", "result_id",
     "result_sample_type", "result_sample_point", "result_type", "result_url"}

ItemFields ==
    SampleLevelFields \cup
        {"result_uuid", "result_analyte_code", "result_analyte_name",
         "result_concentration_level"}

\* The number of sub-results of each sample of the response.
SubCounts(samples) == [i \in 1..Len(samples) |-> Len(samples[i].Results.items)]

\* The records fetched[lo + 1 .. lo + n] carry the run's timestamps, the
\* entity's id and the query's URL, agree on every field that does not come
\* from the sub-result, and have uuids of their own.
SameSample(lo, n) ==
    \A a \in (lo + 1)..(lo + n) :
        /\ fetched[a].unix_timestamp = UnixTimestamp
        /\ fetched[a].timestamp_utc = TimestampUtc
        /\ fetched[a].pwsid = system_info.system_id
        /\ fetched[a].result_url = QueryUrl(family, system_info.system_id.s)
        /\ \A b \in (lo + 1)..(lo + n) :
              /\ \A f \in SampleLevelFields : fetched[a][f] = fetched[b][f]
              /\ a # b => fetched[a].result_uuid # fetched[b].result_uuid

\* The sum of the first k entries of a sequence of numbers.
PrefixSum(seq, k) == SeqSum(SubSeq(seq, 1, k))

\* Every sample holds a Results list.
AllHaveResults(samples) == \A i \in 1..Len(samples) : samples[i].Results.k = "list"

ChemicalTextOk(v) == v.k \in {"absent", "null", "str"} \/ v = JNum(0)

\* A text field the coliform fetch trims without raising: missing or a string.
ColiformTextOk(v) == v.k \in {"absent", "str"}

ChemicalSampleOk(sample) ==
    /\ sample.Results.k = "list"
    /\ ChemicalTextOk(sample.SamplePoint)
    /\ \A j \in 1..Len(sample.Results.items) :
          ChemicalTextOk(sample.Results.items[j].AnalyteName)

ColiformSampleOk(sample) ==
    /\ sample.Results.k = "list"
    /\ sample.Results.items # <<>>
    /\ ColiformTextOk(sample.SamplePoint)
    /\ ColiformTextOk(sample.Results.items[1].AnalyteName)

C9_EveryFieldIsString ==
    \A a \in 1..Len(fetched) : \A f \in ItemFields : fetched[a][f].k = "str"

----------------------------------------------------------------------------
(* Claims about OhioWaterScraper.run, checked under SpecRun.               *)

\* The records of the batch that entity id's fetch of family fam produced.
RecordsOf(batch, fam, id) ==
    {a \in 1..Len(batch) :
        batch[a].result_type = JStr(<<fam>>) /\ batch[a].pwsid = JStr(id)}

ConfigRequested(fam, id) ==
    \E i \in 1..Len(requests) : requests[i] = Request("config", fam, id, 0)

\* The entities of the harvested prefix run fetches for: those that have a
\* NUMBER0.
Harvested ==
    {e \in 1..HarvestLimit(returned) : listing[returned[e]].NUMBER0.k # "absent"}

Exported == pc \in {"upload", "run_done"} /\ files # <<>>

\* The step is a configuration or query request failing with a transport
\* error.
TransportErrorStep ==
    /\ Len(replies') = Len(replies) + 1
    /\ replies'[Len(replies')].status = 0

LastReplyRaised == replies # <<>> /\ replies[Len(replies)].status = 0

\* C7: when the configuration or query request of an entity/family fails
\* with a transport error, the fetch returns zero records and logs an
\* error, the accumulated records stay as they were, and run goes on: with
\* the chemical fetch of the same entity after a coliform failure, with the
\* courtesy delay and the next entity after a chemical failure; a run that
\* reaches export has asked for both families of every harvested entity.
C7_TransportErrorTolerated ==
    /\ [][/\ TransportErrorStep =>
                /\ pc' = "fetch_done"
                /\ fetched' = <<>>
                /\ results' = results
                /\ Len(log') = Len(log) + 1
                /\ log'[Len(log')].level = "error"
          /\ (pc = "fetch_done" /\ LastReplyRaised) =>
                /\ results' = results
                /\ system_info' = system_info
                /\ IF family = "coliform"
                      THEN pc' = "fetch_call" /\ family' = "chemical"
                      ELSE pc' = "sleep"
          /\ pc = "sleep" => (pc' = "entity" /\ idx' = idx + 1 /\ results' = results)
         ]_vars
    /\ [](Exported =>
            \A e \in Harvested :
                LET id == Strip(listing[returned[e]].NUMBER0.s)
                IN /\ ConfigRequested("coliform", id)
                   /\ ConfigRequested("chemical", id)
                   /\ \A j \in 1..Len(replies) :
                         (replies[j].status = 0 /\ replies[j].id = id) =>
                             RecordsOf(results, replies[j].family, id) = {})

\* A run that reached export although the coliform query of the second of
\* three entities raised: the records of the first and of the third entity
\* are in the batch.
C7_Witness ==
    /\ Exported
    /\ Harvested = {1, 2, 3}
    /\ \E j \in 1..Len(replies) :
          /\ replies[j] = Raised("query", "coliform", <<"b">>)
          /\ \E i \in 1..Len(replies) :
                i < j /\ replies[i] = Raised("config", "chemical", <<"a">>)
    /\ RecordsOf(results, "coliform", <<"a">>) # {}
    /\ RecordsOf(results, "chemical", <<"b">>) # {}
    /\ RecordsOf(results, "coliform", <<"c">>) # {}

\* The end-to-end scenario for family fam: discovery returned 3 entities;
\* A's query returned 2 samples of 1 and 3 sub-results, B's query returned
\* 204, C's configuration request returned 500.
Scenario(fam) ==
    /\ Len(returned) = 3
    /\ \A e \in 1..3 : listing[e] = BaseEntity(e)
    /\ \E j \in 1..Len(replies) :
          replies[j] = Reply("query", fam, <<"a">>, 200, "json", RunValue)
    /\ \E j \in 1..Len(replies) :
          replies[j] = Reply("query", fam, <<"b">>, 204, "empty", NoList)
    /\ \E j \in 1..Len(replies) :
          replies[j] = Reply("config", fam, <<"c">>, 500, "none", NoList)

RecordsOfType(batch, fam) ==
    {a \in 1..Len(batch) : batch[a].result_type = JStr(<<fam>>)}

\* The run has ended, after writing one batch, without raising.
RunEnded == pc = "run_done" /\ Len(files) = 1

----------------------------------------------------------------------------
(* Claims about FantineScraper.run, checked under SpecScraper.             *)

\* The coordinator loop has found the flag cleared (line 296).
Observed ==
    \E k \in 1..Len(log) : log[k] = LogEntry("info", "Shutdown requested")

Tasks == 1..Len(task)

\* C11: once the coordinator loop has observed the shutdown flag, no fetch
\* that had not started (had not taken a permit and issued its GET) starts:
\* no step taken after the observation brings a task in flight.
C11_NoStartAfterObserved ==
    [][Observed =>
          \A i \in Tasks : task'[i].phase = "inflight" => task[i].phase = "inflight"]_vars

\* C11, its case: the flag was observed while a fetch had not started, and
\* that fetch got to run afterwards: the closed session refused its GET.
C11_Witness ==
    /\ Observed
    /\ \E i \in Tasks : task[i].phase = "returned" /\ task[i].cause = "refused"

\* C12: every fetch in flight when the coordinator loop observes the flag
\* runs to completion: from the observation on, a fetch in flight stays in
\* flight until it returns with the outcome of its own request; it is not
\* cancelled, and the close of the session does not cut it off.
C12_InFlightCompletes ==
    [][Observed =>
          \A i \in Tasks :
              task[i].phase = "inflight" =>
                  \/ task'[i].phase = "inflight"
                  \/ /\ task'[i].phase = "returned"
                     /\ task'[i].cause \in {"response", "error"}]_vars

\* What a finished run has written is the batch of self.results.
OneFileOfResults ==
    IF pc \in {"fs_upload", "fs_close", "fs_closing", "fs_return", "fs_done"}
       THEN files = <<results>>
       ELSE files = <<>>

\* self.results holds results of fetches that returned, each at most once.
ResultsAreCompletedFetches ==
    /\ \A k \in 1..Len(results) :
           /\ results[k].url \in Tasks
           /\ task[results[k].url].phase = "returned"
           /\ results[k].status_code = task[results[k].url].status
    /\ \A k, l \in 1..Len(results) : results[k].url = results[l].url => k = l

\* C13: when a shutdown signal arrives during harvesting the run still
\* writes exactly one file; the file holds the results the coordinator loop
\* had appended before it observed the flag (nothing is appended after the
\* observation), each the result of a completed fetch, each once.
C13_OneValidFile ==
    /\ [](OneFileOfResults /\ ResultsAreCompletedFetches)
    /\ [][Observed => results' = results]_vars

\* C13, its case: a run that observed the flag after some but not all of
\* its fetches were appended has ended with its partial batch written.
C13_Witness ==
    /\ pc = "fs_done"
    /\ Observed
    /\ Len(results) > 0
    /\ Len(results) < Len(task)
    /\ files = <<results>>

\* C14: in every reachable state the number of fetches in flight is at
\* most config.max_concurrent.
C14_BoundedConcurrency == Cardinality(InFlight) <= config.max_concurrent

\* C14, its case: every permit is taken and another task waits for one.
C14_Witness ==
    /\ Cardinality(InFlight) = config.max_concurrent
    /\ \E i \in Tasks : task[i].phase = "waiting"

----------------------------------------------------------------------------
(* More claims about OhioWaterScraper.run, checked under SpecRun.          *)

\* C15: whatever a discovered entity object contains, no exception raised
\* while processing it leaves its loop iteration: run never ends by
\* raising out of the entity loop.  (NAME stands for the three fields read
\* with .get(key, '').strip(): NAME, D_PWS_FED_TYPE_CD, D_PRIN_CNTY_SVD_NM.)
C15_NoExceptionLeavesEntity == pc # "run_raised"

\* C16: whenever session priming succeeded and discovery returned at least
\* one entity (what collect_all_systems returns is its all_systems), the
\* run that has ended has written exactly one output file.
C16_AlwaysOneFile ==
    (/\ pc \in {"run_done", "run_raised"}
     /\ pages # <<>>
     /\ all_systems # <<>>) => Len(files) = 1

\* The positions of `requests` that hold a request of an entity's fetches.
EntityRequests == {i \in 1..Len(requests) : requests[i].op \in {"config", "query"}}

\* The courtesy delays between positions i and j of `requests`.
SleepsBetween(i, j) ==
    {k \in (i + 1)..(j - 1) : requests[k].op = "sleep"}

\* C20: after the requests of each entity of the harvested prefix and
\* before the first request of the next entity (before export, for the
\* last one) exactly one courtesy delay elapses, whatever the entity's
\* fetches gave.  Entities are told apart by their identifier.
C20_DelayAfterEachEntity ==
    /\ \A i, j \in EntityRequests :
           (/\ i < j
            /\ requests[i].id # requests[j].id
            /\ \A k \in EntityRequests : ~(i < k /\ k < j))
               => Cardinality(SleepsBetween(i, j)) = 1
    /\ pc \in {"save", "upload", "run_done"} =>
           \A i \in EntityRequests :
               (\A k \in EntityRequests : k <= i)
                   => Cardinality(SleepsBetween(i, Len(requests) + 1)) = 1

\* C20, its case: the run has exported after fetching for two entities or
\* more, one of whose requests failed, and slept once per entity.
C20_Witness ==
    /\ Exported
    /\ Cardinality({requests[i].id : i \in EntityRequests}) >= 2
    /\ \E k \in 1..Len(replies) : replies[k].status \in {0, 500}
    /\ Cardinality(SleepsBetween(0, Len(requests) + 1))
           = Cardinality({requests[i].id : i \in EntityRequests})

----------------------------------------------------------------------------
(* Claims about TennesseeWaterScraper.run, checked under SpecTennessee,    *)
(* and about both harvesters, checked under SpecHarvesters.                *)

IsDigitString(s) ==
    \A k \in 1..Len(s) : \E d \in 1..Len(DigitChars) : s[k] = DigitChars[d]

EndsWith(s, suffix) ==
    /\ Len(s) >= Len(suffix)
    /\ SubSeq(s, Len(s) - Len(suffix) + 1, Len(s)) = suffix

\* The reserved pattern of a synthetic record: pwsid TN000dddd, lab sample
\* number TESTdddddd, result_url ending in /test.
SyntheticPattern(r) ==
    /\ Len(r.pwsid) = 9
    /\ SubSeq(r.pwsid, 1, 5) = <<"T", "N", "0", "0", "0">>
    /\ IsDigitString(SubSeq(r.pwsid, 6, 9))
    /\ Len(r.result_lab_sample_number) = 10
    /\ SubSeq(r.result_lab_sample_number, 1, 4) = <<"T", "E", "S", "T">>
    /\ IsDigitString(SubSeq(r.result_lab_sample_number, 5, 10))
    /\ EndsWith(r.result_url, <<"/", "t", "e", "s", "t">>)

AllSynthetic(batch) == \A k \in 1..Len(batch) : SyntheticPattern(batch[k])

NoneSynthetic(batch) == \A k \in 1..Len(batch) : ~SyntheticPattern(batch[k])

\* The run has asked for a page of a system: its home page, a summary page
\* or a detail page.
TnEntityRequests ==
    {i \in 1..Len(requests) : requests[i].op \in {"home", "summary", "detail"}}

\* The listing request failed: another status than 200, or an exception.
TnListingFailed == replies # <<>> /\ replies[1].status # 200

\* Ohio: discovery has returned zero entities because its request failed.
OhioDiscoveryFailed ==
    /\ pages # <<>>
    /\ pages[Len(pages)].status # 200
    /\ all_systems = <<>>

\* Ohio: the run has asked for the configuration or the results of an entity.
OhioEntityRequests ==
    {i \in 1..Len(requests) : requests[i].op \in {"config", "query"}}

\* C17, the part that holds of OhioWaterScraper.run: when discovery returns
\* zero entities because its request failed, the run ends without any
\* per-entity request, without writing and without uploading a file.
OhioAbortsOnDiscoveryFailure ==
    (pc \in {"run_done", "run_raised"} /\ OhioDiscoveryFailed) =>
        /\ pc = "run_done"
        /\ OhioEntityRequests = {}
        /\ files = <<>>
        /\ uploads = <<>>

C18_EverySystemFetched ==
    (/\ pc = "tn_done"
     /\ replies[1].status = 200
     /\ system_links # <<>>) =>
        \A k \in 1..Len(system_links) :
            \E i \in 1..Len(requests) : requests[i] = TnRequest("home", system_links[k])

\* C19: synthetic records are generated only when the accumulated set is
\* empty at export time (self.results only grows from empty, by
\* NumResults synthetic records), so a written batch never mixes synthetic
\* and harvested records, and every synthetic record carries the reserved
\* pattern.
C19_SyntheticOnlyWhenEmpty ==
    /\ [][results' # results =>
             /\ results = <<>>
             /\ pc = "tn_export"
             /\ Len(results') = NumResults
             /\ AllSynthetic(results')]_vars
    /\ [](\A b \in 1..Len(files) : AllSynthetic(files[b]) \/ NoneSynthetic(files[b]))

\* C19, its case: the run found nothing accumulated at export time and has
\* written its batch of synthetic records.
C19_Witness ==
    /\ pc = "tn_done"
    /\ Len(files) = 1
    /\ Len(files[1]) = NumResults
    /\ AllSynthetic(files[1])

----------------------------------------------------------------------------
(* Claims about the order of OhioWaterScraper.run, checked under SpecRun.  *)

SystemsRequests == {i \in 1..Len(requests) : requests[i].op = "systems"}

\* The discovery indices of the entity whose stripped NUMBER0 is id.
DiscoveryIndices(id) ==
    {d \in 1..Len(all_systems) :
        /\ listing[all_systems[d]].NUMBER0.k = "str"
        /\ Strip(listing[all_systems[d]].NUMBER0.s) = id}

\* C21: discovery has run to completion (every page request has returned,
\* and none follows) before the first per-entity request; per-entity
\* requests are issued only for entities among the first min(TestLimit, n)
\* of the n discovered entities, in discovery order.
C21_PrefixAfterDiscovery ==
    /\ \A i \in OhioEntityRequests :
           /\ \A k \in SystemsRequests : k < i
           /\ Len(pages) = Cardinality(SystemsRequests)
           /\ \E d \in DiscoveryIndices(requests[i].id) :
                  d <= Min(TestLimit, Len(all_systems))
    /\ \A i, j \in OhioEntityRequests :
           i < j => \E d \in DiscoveryIndices(requests[i].id),
                       e \in DiscoveryIndices(requests[j].id) : d <= e

\* C21, its case: more entities were discovered than the limit lets
\* through, and the run has exported after fetching for the prefix.
C21_Witness ==
    /\ Exported
    /\ Len(all_systems) > TestLimit
    /\ Cardinality({requests[i].id : i \in OhioEntityRequests}) = TestLimit

\* The run is past _save_results: its file is written.
FileWritten == files # <<>>

\* C22: the run goes through discovery, harvest and export in that order
\* and never back: no discovery request follows a per-entity request, no
\* request at all is issued once the output file is written, the file is
\* written at most once, and self.results is not modified once export has
\* started.
C22_PhaseOrder ==
    /\ [](/\ \A i \in OhioEntityRequests : \A k \in SystemsRequests : k < i
          /\ Len(files) <= 1
          /\ FileWritten => pc \in {"upload", "run_done"})
    /\ [][(pc \in {"save", "upload", "run_done"}) =>
             /\ results' = results
             /\ requests' = requests
             /\ pc' \in {"save", "upload", "run_done"}
             /\ FileWritten => files' = files]_vars

\* C22, its case: a run has gone through every phase: it discovered,
\* fetched for an entity, wrote its file with records in it and ended.
C22_Witness ==
    /\ pc = "run_done"
    /\ SystemsRequests # {}
    /\ OhioEntityRequests # {}
    /\ Len(files) = 1
    /\ files[1] # <<>>
    /\ files[1] = results

----------------------------------------------------------------------------
(* A claim about the export of both harvesters, checked under              *)
(* SpecHarvesters.                                                         *)

UploadEnvs == {"missing", "empty", "set"}

UploadOutcomes == {"ok", "upload_raises", "verify_raises", "verify_empty"}

\* The step logs one entry more, of level error or warning.
LogsFailure ==
    /\ Len(log') = Len(log) + 1
    /\ log'[Len(log')].level \in {"error", "warning"}

\* C23: the local file is written before the upload is attempted (and what
\* is uploaded is that file); without credentials nothing is uploaded; a
\* failing upload or verification is logged; whatever the upload does,
\* nothing is raised to run, which ends normally with its file kept.
C23_ExportTolerant ==
    [][\A env \in UploadEnvs, o \in UploadOutcomes :
          (RunUpload(env, o) \/ TnUpload(env, o)) =>
              /\ Len(files) = 1
              /\ files' = files
              /\ pc' \in {"run_done", "tn_done"}
              /\ uploads' # uploads => uploads' = <<files[1]>>
              /\ env \in {"missing", "empty"} => uploads' = uploads
              /\ (env = "set" /\ o # "ok") => LogsFailure]_vars

\* C23, its case: a run of either harvester has ended with its file
\* written, nothing uploaded, and the failure logged last.
C23_Witness ==
    /\ pc \in {"run_done", "tn_done"}
    /\ Len(files) = 1
    /\ uploads = <<>>
    /\ log # <<>>
    /\ log[Len(log)] = LogEntry("error", "Failed to upload")

----------------------------------------------------------------------------
(* More claims about FantineScraper.run, checked under SpecScraper.        *)

\* The tasks whose result self.results holds.
Appended == {results[k].url : k \in 1..Len(results)}

\* The tasks that finished and that the loop has not taken yet.
Queued == {done_queue[k] : k \in 1..Len(done_queue)}

\* C24: self.results is appended to by the coordinator loop only (a step
\* that changes it is the loop taking the next finished task, and appends
\* that task's result), never by a fetch task; no result is duplicated, and
\* none is lost: the result of every finished task is either appended or
\* still waiting for the loop.
C24_SingleWriter ==
    /\ [][results' # results =>
             /\ pc = "fs_await"
             /\ task' = task
             /\ done_queue # <<>>
             /\ results' = Append(results, ScrapedData(Head(done_queue),
                                                       task[Head(done_queue)].status))]_vars
    /\ [](/\ \A k, l \in 1..Len(results) : results[k].url = results[l].url => k = l
          /\ \A k, l \in 1..Len(done_queue) : done_queue[k] = done_queue[l] => k = l
          /\ Appended \cap Queued = {}
          /\ \A i \in Tasks : task[i].phase = "returned" <=> i \in Appended \cup Queued)

\* C24, its case: with fetches running side by side, the loop has appended
\* one result while another finished fetch waits for it and a third fetch
\* is still in flight.
C24_Witness ==
    /\ config.max_concurrent >= 2
    /\ Len(results) >= 1
    /\ Queued # {}
    /\ InFlight # {}

----------------------------------------------------------------------------
(* C25: the Tennessee traversal functions on a page they cannot use.       *)

\* The page given to the traversal function lacks the table(s) it reads.
TvTableMissing ==
    \/ family = "links" /\ "AutoNumber7" \notin replies[1].tables
    \/ family = "summary" /\ "AutoNumber8" \notin replies[1].tables
    \/ family = "detail" /\ {"AutoNumber4", "AutoNumber8"} \cap replies[1].tables
                                # {"AutoNumber4", "AutoNumber8"}

\* The function fetches its page itself and the answer is not a 200.
TvBadStatus ==
    family \in {"summary", "detail"} /\ ~replies[1].raises /\ replies[1].status # 200

\* Parsing the page raises, or the request itself does.
TvParsingRaises == replies[1].parse_raises \/ replies[1].raises

TvReturned == pc \in {"tv_done", "tv_raised"}

\* C25 as stated: each of scrape_system_links, scrape_chemrad_results_summary
\* and scrape_chemrad_results_detail returns an empty result, without
\* raising, when the page lacks an expected table, when the status is not
\* 200, or when parsing raises.
C25_EmptyWithoutRaising ==
    (TvReturned /\ (TvTableMissing \/ TvBadStatus \/ TvParsingRaises))
        => pc = "tv_done" /\ fetched = <<>>

\* C25 amended: scrape_chemrad_results_summary and
\* scrape_chemrad_results_detail return an empty result, without raising, in
\* each of the three cases; scrape_system_links, which is handed the page
\* text, returns an empty result when table AutoNumber7 is missing and
\* parsing does not raise, and lets the exception out when parsing raises.
C25_EmptyOrPropagates ==
    /\ (TvReturned /\ family \in {"summary", "detail"}
           /\ (TvTableMissing \/ TvBadStatus \/ TvParsingRaises))
          => pc = "tv_done" /\ fetched = <<>>
    /\ (TvReturned /\ family = "links" /\ TvTableMissing /\ ~TvParsingRaises)
          => pc = "tv_done" /\ fetched = <<>>
    /\ (TvReturned /\ family = "links" /\ TvParsingRaises)
          => pc = "tv_raised" /\ fetched = <<>>

\* A detail page that holds both tables and rows but arrived with a status
\* other than 200 has been handled.
C25_Witness ==
    /\ pc = "tv_done"
    /\ family = "detail"
    /\ TvBadStatus /\ ~TvTableMissing /\ ~TvParsingRaises
    /\ replies[1].rows > 0

----------------------------------------------------------------------------
(* C26, C27: termination and over-collection of collect_all_systems,       *)
(* checked under SpecDiscovery.                                            *)

\* The most requests a loop can issue whose every continuing iteration adds
\* at least page_size entities and that stops once the advertised total is
\* reached.
RequestCeiling == Max(AdvertisedTotal - 1, 0) \div PageSize + 1

\* C26: discovery terminates for every source behaviour (any status, any
\* page length including longer than page_size, stale or absent count):
\* every iteration that does not stop adds at least page_size entities, so
\* the number of requests is bounded by the advertised total.
C26_Terminates ==
    /\ [][(pc = "disc_await" /\ pc' = "disc_loop")
              => Len(all_systems') >= Len(all_systems) + PageSize]_vars
    /\ [](Len(requests) <= RequestCeiling)

\* The longest run the advertised total allows, one page of which was
\* longer than page_size.
C26_Witness ==
    /\ pc = "disc_done"
    /\ Len(requests) >= 2
    /\ Len(requests) = RequestCeiling
    /\ \E i \in 1..Len(pages) : pages[i].len > PageSize

NoLongPage == \A i \in 1..Len(pages) : pages[i].len <= PageSize

\* C27: when no page holds more than page_size entities, discovery returns
\* at most max(total_count - 1, 0) + page_size entities, total_count being
\* the value advertised on the first page (0 when absent).
C27_OverCollectsLessThanAPage ==
    (pc = "disc_done" /\ NoLongPage)
        => Len(all_systems) <= Max(AdvertisedTotal - 1, 0) + PageSize

\* A stale count: more entities returned than advertised, by the most the
\* bound allows.
C27_Witness ==
    /\ pc = "disc_done"
    /\ NoLongPage
    /\ AdvertisedTotal >= PageSize + 1
    /\ Len(returned) > AdvertisedTotal
    /\ Len(returned) = AdvertisedTotal - 1 + PageSize

----------------------------------------------------------------------------
(* C28: the order of the records OhioWaterScraper.run accumulates, checked *)
(* under SpecRun, whose source answers a query with RunValue.              *)

\* The discovery index of the entity a record belongs to.
EntityOf(r) ==
    CHOOSE e \in 1..Len(listing) :
        /\ listing[e].NUMBER0.k = "str"
        /\ Trimmed(listing[e].NUMBER0) = r.pwsid

FamilyRank(r) == IF r.result_type = JStr(<<"coliform">>) THEN 1 ELSE 2

\* The position, in the source's response, of the sample a record was
\* built from, and of its sub-result within the sample.
SampleOf(r) ==
    CHOOSE i \in 1..Len(RunValue.items) :
        Coerced(RunValue.items[i].TSASAMPL_IS_NUMBER) = r.result_id

SubResultOf(r) ==
    CHOOSE j \in 1..Len(RunValue.items[SampleOf(r)].Results.items) :
        Plain(RunValue.items[SampleOf(r)].Results.items[j].AnalyteCode) = r.result_analyte_code

RecordKey(r) == <<EntityOf(r), FamilyRank(r), SampleOf(r), SubResultOf(r)>>

\* Lexicographic order of two keys of the same length.
KeyBefore(a, b) ==
    \E p \in 1..Len(a) : a[p] < b[p] /\ \A q \in 1..(p - 1) : a[q] = b[q]

\* C28: records are accumulated by entity in discovery order; within an
\* entity coliform before chemical; within a family in the source order of
\* samples and of sub-results; and the chemical fetch is started after
\* every coliform fetch, whatever that one returned.
C28_AccumulationOrder ==
    /\ [](\A k, l \in 1..Len(results) :
             k < l => KeyBefore(RecordKey(results[k]), RecordKey(results[l])))
    /\ [][(pc = "fetch_done" /\ family = "coliform")
             => /\ pc' = "fetch_call"
                /\ family' = "chemical"
                /\ system_info' = system_info]_vars
    /\ [][pc = "fetch_call"
             => requests' = Append(requests,
                                   Request("config", family, system_info.system_id.s, 0))]_vars

RecordsOfFamily(e, rank) ==
    {k \in 1..Len(results) : EntityOf(results[k]) = e /\ FamilyRank(results[k]) = rank}

\* Two entities harvested: one whose coliform fetch returned nothing and
\* whose chemical fetch returned records, one with records of both families.
C28_Witness ==
    /\ pc = "run_done"
    /\ Len(files) = 1
    /\ \E e, f \in 1..Len(listing) :
          /\ e # f
          /\ RecordsOfFamily(e, 1) = {} /\ Cardinality(RecordsOfFamily(e, 2)) = 4
          /\ Cardinality(RecordsOfFamily(f, 1)) = 2 /\ Cardinality(RecordsOfFamily(f, 2)) = 4

----------------------------------------------------------------------------
(* C29: a fetch whose normalization raises part-way, checked under         *)
(* SpecFetch.                                                              *)

\* The sub-results of a chemical sample whose record cannot be built.
RaisingSubs(sample) ==
    {j \in 1..Len(sample.Results.items) : ChemicalRaises(sample, sample.Results.items[j])}

\* Normalizing the sample raises.
SampleRaises(fam, sample) ==
    IF fam = "coliform" THEN ColiformRaises(sample)
    ELSE sample.Results.k = "null" \/ RaisingSubs(sample) # {}

RaisingSamples == {i \in 1..Len(RepliedSamples) : SampleRaises(family, RepliedSamples[i])}

Least(S) == CHOOSE x \in S : \A y \in S : x <= y

\* The records of the samples before the k-th.
RecordsBefore(k) ==
    Normalize(family, SubSeq(RepliedSamples, 1, k - 1), system_info,
              QueryUrl(family, system_info.system_id.s), 0).items

\* The records of the sub-results of the k-th sample that precede the one
\* that raised, numbered after n earlier records.
RecordsWithin(k, n) ==
    LET sample == RepliedSamples[k]
    IN IF family = "coliform" \/ sample.Results.k = "null" THEN <<>>
       ELSE [b \in 1..(Least(RaisingSubs(sample)) - 1) |->
                ChemicalItem(sample, sample.Results.items[b], system_info,
                             QueryUrl(family, system_info.system_id.s), n + b)]

\* C29 as stated: when normalizing the k-th raw sample raises, the fetch
\* returns exactly the records built from the samples before the k-th, in
\* order, and no exception reaches run.
C29_StopsAtSample ==
    (pc = "fetch_done" /\ RaisingSamples # {})
        => fetched = RecordsBefore(Least(RaisingSamples))

\* C29 amended: when normalizing the k-th raw sample raises, the fetch
\* returns, in order, the records built before the raise: those of the
\* samples before the k-th and, for a chemical sample, those of the k-th
\* sample's sub-results that precede the one that raised; the remaining
\* samples contribute nothing, the error is logged and no exception
\* reaches run.
C29_StopsAtRaise ==
    (pc = "fetch_done" /\ RaisingSamples # {})
        => LET k == Least(RaisingSamples)
               before == RecordsBefore(k)
           IN /\ fetched = before \o RecordsWithin(k, Len(before))
              /\ ErrorLogged

\* The second of two chemical samples raised at a sub-result after its
\* first: the two records of the first sample and at least one of the
\* second were returned.
C29_Witness ==
    /\ pc = "fetch_done"
    /\ family = "chemical"
    /\ RaisingSamples = {2}
    /\ Len(RecordsBefore(2)) = 2
    /\ Len(fetched) > 2

----------------------------------------------------------------------------
(* C30: what FantineScraper.run saves when no shutdown signal arrives,     *)
(* checked under SpecScraper.                                              *)

\* The positions of the saved file that hold the record of URL u.
SavedFor(u) == {k \in 1..Len(files[1]) : files[1][k].url = u}

\* C30: without a shutdown signal the saved results hold exactly one
\* ScrapedData for each of the first max_pages target URLs and none for a
\* later URL, min(len(target_urls), max_pages) in all; a URL whose fetch
\* raised is saved with status_code 0 and empty title and content.
C30_OneRecordPerUrl ==
    (files # <<>> /\ running) =>
        LET n == Min(config.target_urls, config.max_pages)
        IN /\ Len(files[1]) = n
           /\ \A u \in 1..n : Cardinality(SavedFor(u)) = 1
           /\ \A u \in (n + 1)..config.target_urls : SavedFor(u) = {}
           /\ \A u \in 1..n :
                 task[u].cause # "response" =>
                     \A k \in SavedFor(u) :
                         /\ files[1][k].status_code = 0
                         /\ files[1][k].title = <<>>
                         /\ files[1][k].content = <<>>

\* More target URLs than max_pages; one fetch raised, another was answered.
C30_Witness ==
    /\ files # <<>>
    /\ running
    /\ config.target_urls > config.max_pages
    /\ \E k, l \in 1..Len(files[1]) :
          /\ files[1][k].status_code = 0 /\ files[1][k].title = <<>>
          /\ files[1][l].status_code = 200 /\ files[1][l].title # <<>>
=============================================================================
